---- MODULE Spec2Model ----
(***************************************************************************)
(* A model of the TextMe daemon: the poll loop of index.ts (poll,          *)
(* processMessage, processQueue, handleInterrupt), the agent session of    *)
(* claude-session.ts (ClaudeSession.send/kill/cleanup and the session      *)
(* registry) and the content guard of security.ts.                         *)
(*                                                                         *)
(* Text is a sequence of tokens (a token is a word, a run of digits, a     *)
(* blank or a punctuation mark); the regular expressions of the source     *)
(* are matched token by token.                                             *)
(*                                                                         *)
(* Node runs one callback at a time: an action of this model is the code   *)
(* that runs between two points at which the event loop can take another   *)
(* I/O event (an awaited HTTP call of the transport, a subprocess event, a *)
(* timer).  An await of an already settled promise (the awaits inside      *)
(* getOrCreateSession) only yields to the microtask queue, which holds no  *)
(* other continuation of this program at that point, so it does not end an *)
(* action.                                                                 *)
(***************************************************************************)
EXTENDS Naturals, Integers, Sequences, FiniteSets, TLC

(***************************************************************************)
(* Bounds of the model.                                                    *)
(***************************************************************************)
\* number of inbound messages (message handles) the transport ever holds
MaxMsgs == 2
\* where the clock is observed on its own, it runs from 0 to MaxTime
MaxTime == 3
\* number of tokens of a text given to sanitizeMessageContent on its own
MaxLen == 4

(***************************************************************************)
(* Program constants.                                                      *)
(***************************************************************************)
\* checkRateLimit's default maxPerHour
MaxPerHour == 30
\* the length of the rate-limit window (3600000 ms), the unit of the clock
WindowLen == 1

Handles == 1..MaxMsgs

(***************************************************************************)
(* Text.                                                                   *)
(***************************************************************************)
Blank == {" ", "\n", "\n\n"}
Digits == {"1", "2", "15551", "2024"}
Alnum == Digits \cup {"hello", "abc", "true", "false", "TRUE"}

\* String.prototype.toLowerCase, token by token
ToLower(tok) ==
    CASE tok = "TRUE" -> "true"
      [] tok = "HELP" -> "help"
      [] tok = "Status" -> "status"
      [] tok = "STOP" -> "stop"
      [] tok = "Cancel" -> "cancel"
      [] tok = "No" -> "no"
      [] tok = "CD" -> "cd"
      [] tok = "[SYSTEM]" -> "[system]"
      [] tok = "Is_From_Me" -> "is_from_me"
      [] OTHER -> tok

LowerSeq(s) == [i \in 1..Len(s) |-> ToLower(s[i])]

RECURSIVE TrimLeft(_)
TrimLeft(s) ==
    IF s # <<>> /\ Head(s) \in Blank THEN TrimLeft(Tail(s)) ELSE s

RECURSIVE TrimRight(_)
TrimRight(s) ==
    IF s # <<>> /\ s[Len(s)] \in Blank
    THEN TrimRight(SubSeq(s, 1, Len(s) - 1))
    ELSE s

\* String.prototype.trim
Trim(s) == TrimRight(TrimLeft(s))

(***************************************************************************)
(* Regular expressions over tokens.  A pattern is a sequence of elements   *)
(* [cls, q]: a set of (lower-cased) tokens and a quantifier, "1" (exactly  *)
(* one), "*" (zero or more), "?" (zero or one) or "+" (one or more).       *)
(* Consecutive classes of the patterns below are disjoint, so the greedy   *)
(* match needs no backtracking.  All patterns carry the i flag.            *)
(***************************************************************************)
El(cls, q) == [cls |-> cls, q |-> q]

RECURSIVE SkipClass(_, _, _)
\* the position after the longest run of tokens of cls that starts at i
SkipClass(cls, s, i) ==
    IF i <= Len(s) /\ ToLower(s[i]) \in cls THEN SkipClass(cls, s, i + 1) ELSE i

RECURSIVE MatchFrom(_, _, _, _)
\* the position after the match of pat[k..] that starts at s[i], or 0
MatchFrom(pat, k, s, i) ==
    IF k > Len(pat) THEN i
    ELSE LET e == pat[k]
             here == i <= Len(s) /\ ToLower(s[i]) \in e.cls
         IN  CASE e.q = "1" -> IF here THEN MatchFrom(pat, k + 1, s, i + 1) ELSE 0
               [] e.q = "?" -> MatchFrom(pat, k + 1, s, IF here THEN i + 1 ELSE i)
               [] e.q = "*" -> MatchFrom(pat, k + 1, s, SkipClass(e.cls, s, i))
               [] e.q = "+" -> IF here
                               THEN MatchFrom(pat, k + 1, s, SkipClass(e.cls, s, i))
                               ELSE 0

\* RegExp.prototype.test of a fresh regular expression
Test(pat, s) == \E i \in 1..Len(s) : MatchFrom(pat, 1, s, i) # 0

RECURSIVE ReplaceFrom(_, _, _, _)
\* String.prototype.replace with a g-flagged pattern, from position i on
ReplaceFrom(pat, s, i, by) ==
    IF i > Len(s) THEN <<>>
    ELSE LET e == MatchFrom(pat, 1, s, i)
         IN  IF e # 0
             THEN <<by>> \o ReplaceFrom(pat, s, e, by)
             ELSE <<s[i]>> \o ReplaceFrom(pat, s, i + 1, by)

RECURSIVE ReplaceFirstFrom(_, _, _, _)
ReplaceFirstFrom(pat, s, i, by) ==
    IF i > Len(s) THEN <<>>
    ELSE LET e == MatchFrom(pat, 1, s, i)
         IN  IF e # 0
             THEN <<by>> \o SubSeq(s, e, Len(s))
             ELSE <<s[i]>> \o ReplaceFirstFrom(pat, s, i + 1, by)

\* a replace without the g flag: only the first match is replaced
ReplaceFirst(pat, s, by) == ReplaceFirstFrom(pat, s, 1, by)

ReplaceAll(pat, s, by) == ReplaceFrom(pat, s, 1, by)

(***************************************************************************)
(* security.ts                                                             *)
(***************************************************************************)
Sp == El(Blank, "*")

\* the dangerousPatterns of sanitizeMessageContent, in the source's order
dangerousPatterns ==
    << <<El({"is_from_me"}, "1"), Sp, El({":"}, "1"), Sp, El({"true", "false"}, "1")>>,
       <<El({"sender"}, "1"), Sp, El({":"}, "1"), Sp, El({"+"}, "?"), El(Digits, "+")>>,
       <<El({"date"}, "1"), Sp, El({":"}, "1"), Sp, El({"2024-01-01t00:00:00"}, "1")>>,
       <<El({"message_handle"}, "1"), Sp, El({":"}, "1"), Sp, El(Alnum \cup {"-"}, "+")>>,
       <<El({"[system]"}, "1")>>,
       <<El({"[daemon]"}, "1")>>,
       <<El({"[admin]"}, "1")>> >>

FILTERED == "[FILTERED]"

RECURSIVE SanitizeFrom(_, _, _)
\* the loop over dangerousPatterns from pattern k on: <<sanitized, filtered>>
SanitizeFrom(k, sanitized, filtered) ==
    IF k > Len(dangerousPatterns) THEN <<sanitized, filtered>>
    ELSE IF Test(dangerousPatterns[k], sanitized)
         THEN SanitizeFrom(k + 1, ReplaceAll(dangerousPatterns[k], sanitized, FILTERED), TRUE)
         ELSE SanitizeFrom(k + 1, sanitized, filtered)

\* sanitizeMessageContent: the text returned
sanitizeMessageContent(content) == SanitizeFrom(1, content, FALSE)[1]

\* sanitizeMessageContent: whether it logs a content_sanitized event
SanitizeLogs(content) == SanitizeFrom(1, content, FALSE)[2]

\* a match of a dangerous pattern is left in the text
HasDangerous(s) == \E k \in 1..Len(dangerousPatterns) : Test(dangerousPatterns[k], s)

\* the sensitivePaths of detectSuspiciousPatterns
sensitivePaths ==
    << <<El({"~"}, "?"), El({"/.ssh/"}, "1")>>,
       <<El({"/etc/passwd"}, "1")>>,
       <<El({"/etc/shadow"}, "1")>>,
       <<El({".aws/credentials"}, "1")>>,
       <<El({".env"}, "1")>>,
       <<El({"id_rsa", "id_dsa", "id_ecdsa", "id_ed25519"}, "1")>> >>

\* detectSuspiciousPatterns: the indices of the patterns found
detectSuspiciousPatterns(content) ==
    {k \in 1..Len(sensitivePaths) : Test(sensitivePaths[k], content)}

\* a checkRateLimit that lets the sender at the limit pass once more
checkRateLimitOffByOne(limits, phoneNumber, now) ==
    LET limit == limits[phoneNumber]
    IN  IF limit.count = 0 \/ now > limit.resetTime
        THEN <<TRUE, MaxPerHour - 1,
               [limits EXCEPT ![phoneNumber] = [count |-> 1, resetTime |-> now + WindowLen]]>>
        ELSE IF limit.count > MaxPerHour
        THEN <<FALSE, 0, limits>>
        ELSE <<TRUE, MaxPerHour - (limit.count + 1),
               [limits EXCEPT ![phoneNumber].count = limit.count + 1]>>

\* a checkRateLimit whose window rolls: every counted call moves its end
checkRateLimitRolling(limits, phoneNumber, now) ==
    LET limit == limits[phoneNumber]
    IN  IF limit.count = 0 \/ now > limit.resetTime
        THEN <<TRUE, MaxPerHour - 1,
               [limits EXCEPT ![phoneNumber] = [count |-> 1, resetTime |-> now + WindowLen]]>>
        ELSE IF limit.count >= MaxPerHour
        THEN <<FALSE, 0, limits>>
        ELSE <<TRUE, MaxPerHour - (limit.count + 1),
               [limits EXCEPT ![phoneNumber] = [count |-> limit.count + 1,
                                                resetTime |-> now + WindowLen]]>>

\* checkRateLimit(phoneNumber): limits is the rateLimits map (count 0: no
\* entry), now the clock.  The result is <<allowed, remaining, limits'>>.
checkRateLimit(limits, phoneNumber, now) ==
    LET limit == limits[phoneNumber]
    IN  IF limit.count = 0 \/ now > limit.resetTime
        THEN <<TRUE, MaxPerHour - 1,
               [limits EXCEPT ![phoneNumber] = [count |-> 1, resetTime |-> now + WindowLen]]>>
        ELSE IF limit.count >= MaxPerHour
        THEN <<FALSE, 0, limits>>
        ELSE <<TRUE, MaxPerHour - (limit.count + 1),
               [limits EXCEPT ![phoneNumber].count = limit.count + 1]>>

\* checkRateLimit: whether it logs a rate_limit_exceeded event
RateLimitLogs(limits, phoneNumber, now) ==
    LET limit == limits[phoneNumber]
    IN  ~(limit.count = 0 \/ now > limit.resetTime) /\ limit.count >= MaxPerHour

(***************************************************************************)
(* index.ts: the allow-list and the command table                          *)
(***************************************************************************)
DigitChars == {"0", "1", "2", "3"}

\* num.replace(/\D/g, ''): a phone number is a sequence of characters
normalize(num) == SelectSeq(num, LAMBDA c : c \in DigitChars)

\* config.whitelist
Whitelist == << <<"+", "1", "2">> >>

isWhitelisted(phoneNumber) ==
    \E i \in 1..Len(Whitelist) : normalize(Whitelist[i]) = normalize(phoneNumber)

Norm(content) == LowerSeq(Trim(content))

isHelpCommand(content) == Norm(content) \in {<<"help">>, <<"?">>}
isStatusCommand(content) == Norm(content) \in {<<"status">>, <<"status", "?">>}
isQueueCommand(content) == Norm(content) \in {<<"queue">>, <<"q">>}
isHistoryCommand(content) ==
    \/ Norm(content) \in {<<"history">>, <<"h">>}
    \/ /\ Len(Norm(content)) >= 3
       /\ Norm(content)[1] \in {"history", "h"}
       /\ Norm(content)[Len(Norm(content))] \in Digits
       /\ \A i \in 2..(Len(Norm(content)) - 1) : Norm(content)[i] \in Blank
isInterruptCommand(content) == Norm(content) \in {<<"interrupt">>, <<"stop">>, <<"cancel">>}
isHomeCommand(content) == Norm(content) = <<"home">>
isResetCommand(content) == Norm(content) \in {<<"reset">>, <<"fresh">>, <<"new", " ", "session">>}
isDirsCommand(content) == Norm(content) \in {<<"dirs">>, <<"projects">>, <<"/dirs">>, <<"/projects">>}
\* /^cd\s+(.+)$/i on the trimmed content
isCdCommand(content) ==
    /\ Len(Trim(content)) >= 3
    /\ ToLower(Trim(content)[1]) = "cd"
    /\ Trim(content)[2] \in Blank
isApprovalResponse(content) ==
    Norm(content) \in {<<"yes">>, <<"y">>, <<"approve">>, <<"ok">>, <<"go">>,
                       <<"run", " ", "it">>, <<"do", " ", "it">>,
                       <<"no">>, <<"n">>, <<"reject">>, <<"cancel">>, <<"deny">>, <<"stop">>}

\* the first command handler of poll() that takes the content, "" when none
\* does (the approval reply is decided separately: it needs the pending
\* approval of the sender)
CommandOf(content) ==
    CASE isHelpCommand(content) -> "help"
      [] isStatusCommand(content) -> "status"
      [] isQueueCommand(content) -> "queue"
      [] isHistoryCommand(content) -> "history"
      [] isInterruptCommand(content) -> "interrupt"
      [] isHomeCommand(content) -> "home"
      [] isResetCommand(content) -> "reset"
      [] isDirsCommand(content) -> "dirs"
      [] isCdCommand(content) -> "cd"
      [] OTHER -> ""

\* detectMediaType: a URL is <<stem, extension>>
detectMediaType(url) ==
    LET ext == ToLower(url[2])
        stem == ToLower(url[1])
    IN  CASE ext \in {".jpg", ".jpeg", ".png", ".gif", ".webp", ".heic", ".heif", ".bmp", ".tif", ".tiff"} -> "image"
          [] ext \in {".mp3", ".m4a", ".wav", ".aac", ".ogg", ".caf", ".amr"} -> "audio"
          [] ext \in {".mp4", ".mov", ".avi", ".webm", ".mkv"} -> "video"
          [] stem \in {"cdn/image", "cdn/photo"} -> "image"
          [] stem \in {"cdn/audio", "cdn/voice"} -> "audio"
          [] OTHER -> "file"

NoUrl == <<>>

\* the content poll() builds from the sanitized text, the media URL and the
\* transcription of a voice note (<<>>: transcribeAudio returned null or '')
BuildContent(sanitizedContent, mediaUrl, transcription) ==
    LET sep(notice) == IF sanitizedContent # <<>>
                       THEN sanitizedContent \o <<"\n\n">> \o notice
                       ELSE notice
    IN  IF mediaUrl = NoUrl THEN sanitizedContent
        ELSE CASE detectMediaType(mediaUrl) = "image" ->
                    sep(<<"[User sent an image: ">> \o mediaUrl \o <<"]">>)
               [] detectMediaType(mediaUrl) = "audio" ->
                    IF transcription # <<>>
                    THEN sep(<<"[Voice note transcription: \"">> \o transcription \o <<"\"]">>)
                    ELSE sep(<<"[User sent a voice note: ">> \o mediaUrl \o <<"]">>)
               [] OTHER ->
                    sep(<<"[User sent a file: ">> \o mediaUrl \o <<"]">>)

(***************************************************************************)
(* claude-session.ts.  The record a holds the module's state:              *)
(*   sessions        the ClaudeSession objects ever constructed, by index  *)
(*   currentSession  the registry's session (0: null), currentDir its key  *)
(*   proc            the subprocess spawned by the send() of turn h, with   *)
(*                   that send's own closure (timer, rawOutput, settled)   *)
(*   runningTask     db.js's running-task record (0: none), which          *)
(*                   setRunningTask and clearRunningTask write             *)
(* A task id and a subprocess are named by the handle of their turn.       *)
(***************************************************************************)
NewSession(dir) ==
    [workingDirectory |-> dir, isActive |-> TRUE, currentTaskId |-> 0,
     currentProcess |-> 0, partialOutput |-> ""]

NoProc == [st |-> "none", sid |-> 0, timer |-> FALSE, rawOutput |-> "", settled |-> FALSE]

\* ClaudeSession.cleanup
cleanup(a, sid) ==
    IF a.sessions[sid].currentTaskId # 0
    THEN [a EXCEPT !.runningTask = 0, !.sessions[sid].currentTaskId = 0]
    ELSE a

\* ChildProcess.kill('SIGTERM'): a process that has not exited is signalled
Signal(a, p) ==
    IF a.proc[p].st = "running" THEN [a EXCEPT !.proc[p].st = "signalled"] ELSE a

\* a kill that signals the subprocess and keeps its handle
killKeepsHandle(a, sid) ==
    LET p == a.sessions[sid].currentProcess
    IN  IF p # 0 THEN cleanup(Signal(a, p), sid) ELSE cleanup(a, sid)

\* a kill that also clears the 10-minute timer of the subprocess it signals
killClearsTimer(a, sid) ==
    LET p == a.sessions[sid].currentProcess
    IN  IF p # 0
        THEN cleanup([Signal(a, p) EXCEPT !.sessions[sid].currentProcess = 0,
                                          !.proc[p].timer = FALSE], sid)
        ELSE cleanup(a, sid)

\* ClaudeSession.kill
kill(a, sid) ==
    LET p == a.sessions[sid].currentProcess
    IN  IF p # 0
        THEN cleanup([Signal(a, p) EXCEPT !.sessions[sid].currentProcess = 0], sid)
        ELSE cleanup(a, sid)

\* ClaudeSession.exit
exit(a, sid) == kill([a EXCEPT !.sessions[sid].isActive = FALSE], sid)

\* getOrCreateSession: the state after it; the session it returns is
\* currentSession of that state
getOrCreateSession(a, workingDir) ==
    IF /\ a.currentSession # 0
       /\ a.sessions[a.currentSession].isActive
       /\ a.currentDir = workingDir
    THEN a
    ELSE LET b == IF a.currentSession # 0 THEN exit(a, a.currentSession) ELSE a
         IN  [b EXCEPT !.currentDir = workingDir,
                       !.sessions = Append(b.sessions, NewSession(workingDir)),
                       !.currentSession = Len(b.sessions) + 1]

\* a killCurrentSession that kills the session and leaves it in the registry
killCurrentSessionKept(a) ==
    IF a.currentSession # 0 THEN kill(a, a.currentSession) ELSE a

\* killCurrentSession
killCurrentSession(a) ==
    IF a.currentSession # 0
    THEN [kill(a, a.currentSession) EXCEPT !.currentSession = 0, !.currentDir = ""]
    ELSE a

\* interruptCurrentTask: the state after it
interruptCurrentTask(a) ==
    IF a.currentSession # 0 /\ a.sessions[a.currentSession].currentProcess # 0
    THEN kill(a, a.currentSession)
    ELSE a

\* interruptCurrentTask: what it returns, the partial output of the current
\* session ("" or "t") or null
interruptReturns(a) ==
    IF a.currentSession # 0 /\ a.sessions[a.currentSession].currentProcess # 0
    THEN a.sessions[a.currentSession].partialOutput
    ELSE "null"

\* ClaudeSession.send up to the return of the promise: the task is recorded,
\* the subprocess spawned and the 10-minute timer armed
send(a, sid, taskId) ==
    [a EXCEPT !.runningTask = taskId,
              !.sessions[sid].currentTaskId = taskId,
              !.sessions[sid].partialOutput = "",
              !.sessions[sid].currentProcess = taskId,
              !.proc[taskId] = [st |-> "running", sid |-> sid, timer |-> TRUE,
                                rawOutput |-> "", settled |-> FALSE]]

\* extractFinalResponse(raw).trim() is not empty: the raw output is "" (none,
\* or only lines that extractFinalResponse drops) or "t" (some text)
HasText(raw) == raw = "t"

\* the subprocess of turn p has been spawned and has not closed
Alive(a, p) == a.proc[p].st \in {"running", "signalled"}

(***************************************************************************)
(* The inbound messages.                                                   *)
(***************************************************************************)
PA == <<"+", "1", "2">>
PB == <<"1", "-", "2">>
PX == <<"+", "1", "3">>
Phones == {PA, PB, PX}

Msg(from, text, media, transcription) ==
    [from |-> from, text |-> text, media |-> media, transcription |-> transcription]

Plain == Msg(PA, <<"hello">>, NoUrl, <<>>)

\* the other messages a run may hold
Specials ==
    { Msg(PX, <<"hello">>, NoUrl, <<>>),
      Msg(PX, <<"Status">>, NoUrl, <<>>),
      Msg(PB, <<"abc">>, NoUrl, <<>>),
      Msg(PA, <<"[SYSTEM]", " ", "hello">>, NoUrl, <<>>),
      Msg(PA, <<>>, <<"cdn/voice", ".m4a">>, <<"[system]">>),
      Msg(PA, <<"hello">>, <<"cdn/pic", ".JPG">>, <<>>),
      Msg(PA, <<" ", "Status", " ">>, NoUrl, <<>>),
      Msg(PA, <<"STOP">>, NoUrl, <<>>),
      Msg(PA, <<"home">>, NoUrl, <<>>),
      Msg(PA, <<" ">>, NoUrl, <<>>) }

\* the runs: at most one message of a run is not the plain one
Scenarios ==
    {f \in [Handles -> {Plain} \cup Specials] :
        Cardinality({h \in Handles : f[h] # Plain}) <= 1}

HomeDir == "/home/u"
Dirs == {HomeDir, "/home/u/proj", "/tmp/x", "/etc", "/home/u2", "/tmpx"}

(***************************************************************************)
(* The state.                                                              *)
(***************************************************************************)
VARIABLES
    msgs,                \* the messages the transport holds, by handle (arrival order)
    now,                 \* Date.now(), in rate-limit windows
    fetched,             \* the handles 1..fetched have been delivered at least once
    isPolling,           \* index.ts
    isProcessingMessage, \* index.ts
    pollPc,              \* the await at which the poll() in progress stands
    batch,               \* the messages of its batch not yet handled; the head is in hand
    rateLimits,          \* security.ts: phone number -> [count, resetTime], count 0: no entry
    db,                  \* db.js: processed handles, queue, pending approvals, current_project
    agent,               \* claude-session.ts and db.js's running task
    pm,                  \* the processMessage call of each turn: [pc, root, content]
    log,                 \* history: <<handle, event>> for what was done with a turn
    guardLog,            \* history: the guard steps passed by the last handling of a turn
    ret                  \* history: the last call of a function under observation, with
                         \* its arguments and what it returned

vars == <<msgs, now, fetched, isPolling, isProcessingMessage, pollPc, batch,
          rateLimits, db, agent, pm, log, guardLog, ret>>

\* the state as a record, on which the operations below are functions
\* the guard call of poll() that throws during the run in hand, and the
\* message it throws for: none unless a step says so
NoFault == [h |-> 0, at |-> "none"]

Cur ==
    [now |-> now, fetched |-> fetched, isPolling |-> isPolling,
     isProcessingMessage |-> isProcessingMessage, pollPc |-> pollPc, batch |-> batch,
     rateLimits |-> rateLimits, db |-> db, agent |-> agent, pm |-> pm, log |-> log,
     guardLog |-> guardLog, fault |-> NoFault]

\* a ClaudeSession object is referenced by the registry or by the handlers
\* and the timer of a subprocess of it
Referenced(a, sid) ==
    \/ sid = a.currentSession
    \/ \E h \in Handles : /\ a.proc[h].sid = sid
                          /\ \/ a.proc[h].st \in {"running", "signalled", "errored"}
                             \/ a.proc[h].timer

\* garbage collection: the objects no handler can reach any more are dropped
\* (an unreferenced session, the closure of a send whose subprocess has
\* closed); the sessions left are numbered in the order of their creation
Collect(a) ==
    LET live == {sid \in 1..Len(a.sessions) : Referenced(a, sid)}
        rank(sid) == Cardinality({t \in live : t <= sid})
    IN  [a EXCEPT !.sessions = [r \in 1..Cardinality(live) |->
                                   a.sessions[CHOOSE sid \in live : rank(sid) = r]],
                  !.currentSession = IF @ = 0 THEN 0 ELSE rank(@),
                  !.proc = [h \in Handles |->
                               IF a.proc[h].st = "closed"
                               THEN [st |-> "closed", sid |-> 0, timer |-> FALSE,
                                     rawOutput |-> "", settled |-> TRUE]
                               ELSE IF a.proc[h].st = "none" THEN a.proc[h]
                               ELSE [a.proc[h] EXCEPT !.sid = rank(@)]]]

\* the next state is S, but for what is observed of the step
BecomesBut(S) ==
    /\ msgs' = msgs
    /\ now' = S.now
    /\ fetched' = S.fetched
    /\ isPolling' = S.isPolling
    /\ isProcessingMessage' = S.isProcessingMessage
    /\ pollPc' = S.pollPc
    /\ batch' = S.batch
    /\ rateLimits' = S.rateLimits
    /\ db' = S.db
    /\ agent' = Collect(S.agent)
    /\ pm' = S.pm
    /\ log' = S.log
    /\ guardLog' = S.guardLog

\* no call of resolve or reject is observed
NoCall ==
    [op |-> "send", h |-> 0, by |-> "none", outcome |-> "", code |-> 0, first |-> FALSE,
     raw |-> "", partial |-> "", pc |-> "", st |-> "", task |-> 0]

\* the next state is S, and the step makes no call that is observed
Becomes(S) == BecomesBut(S) /\ ret' = IF ret.op = "send" THEN NoCall ELSE ret

\* no call has been observed
NoRet == [op |-> "none"]

\* the entry of a queued turn, as queueMessage stores it
QEntry(h, phone, content) == [message_handle |-> h, phone_number |-> phone, content |-> content]

NoPm == [pc |-> "none", root |-> 0, content |-> <<>>]

\* the content poll() hands on for the message h (the transcription of a
\* voice note is at hand only after transcribeAudio)
ContentOf(h, transcription) ==
    BuildContent(sanitizeMessageContent(Trim(msgs[h].text)), msgs[h].media, transcription)

\* init() has run: the session registry holds a session for the working
\* directory, and the durable queue holds the turns 1..q, which the daemon
\* queued (and marked processed) before it was restarted; pending holds the
\* senders with a pending approval in the database
StartupWith(q, pending) ==
    /\ now = 0
    /\ fetched = q
    /\ isPolling = FALSE
    /\ isProcessingMessage = FALSE
    /\ pollPc = "idle"
    /\ batch = <<>>
    /\ agent = getOrCreateSession(
                  [sessions |-> <<>>, currentSession |-> 0, currentDir |-> "",
                   proc |-> [h \in Handles |-> NoProc], runningTask |-> 0], HomeDir)
    /\ pm = [h \in Handles |-> NoPm]
    /\ log = {<<h, "queued">> : h \in 1..q}
    /\ guardLog = [h \in Handles |-> IF h <= q THEN <<"allow", "rate", "sanitize">> ELSE <<>>]
    /\ db = [processed |-> 1..q,
             queue |-> [h \in 1..q |-> QEntry(h, msgs[h].from, ContentOf(h, <<>>))],
             pendingApproval |-> pending,
             current_project |-> HomeDir]

\* init() has run and no approval is pending
Startup(q) == StartupWith(q, {})

NoRateLimits == [p \in Phones |-> [count |-> 0, resetTime |-> 0]]

\* The daemon starts with an empty queue or with one queued turn; every
\* message is a plain request of the allowed sender.
Init ==
    /\ ret = NoRet
    /\ msgs = [h \in Handles |-> Plain]
    /\ rateLimits = NoRateLimits
    /\ \E q \in 0..1 : Startup(q)

\* The daemon starts with an empty queue; at most one message is not a plain
\* request.  The rate-limit counters are those of a daemon that has been up
\* for part of an hour: the allowed sender PA has been counted n times in the
\* current window.
InitGuard ==
    /\ ret = NoRet
    /\ msgs \in Scenarios
    /\ \E n \in {0, MaxPerHour - 1, MaxPerHour} :
          rateLimits = [NoRateLimits EXCEPT ![PA] =
                           IF n > 0 THEN [count |-> n, resetTime |-> WindowLen] ELSE @]
    /\ Startup(0)

(***************************************************************************)
(* index.ts: poll().  The code of poll() between two awaits runs in one    *)
(* step: RunLoop handles the messages of the batch until the loop reaches  *)
(* an await (pollPc names it) or poll() returns.                           *)
(***************************************************************************)
Note(h, kind) == <<h, kind>>

Logged(S, events) == [S EXCEPT !.log = @ \cup events]

\* a sendMessage call with a notice of the given kind about the turn h; a
\* second notice of the same kind about the same turn is told apart
Notice(S, h, kind) ==
    {Note(h, kind)} \cup (IF Note(h, kind) \in S.log THEN {Note(h, "notice:again")} ELSE {})

\* poll() leaves through its finally block
PollReturns(S) == [S EXCEPT !.isPolling = FALSE, !.pollPc = "idle", !.batch = <<>>]

\* the loop goes on with the next message of the batch
Continue(S) == [S EXCEPT !.pollPc = "loop", !.batch = Tail(@)]

\* the loop awaits a sendMessage or transcribeAudio call for the message in hand
Await(S, pc) == [S EXCEPT !.pollPc = pc]

\* a markMessageProcessed that records nothing
markMessageForgotten(S, h) == S

\* markMessageProcessed
markMessageProcessed(S, h) == [S EXCEPT !.db.processed = @ \cup {h}]

\* an allow-list check that lets every sender pass
GuardAllowAnyone(phone) == TRUE

\* the allow-list check of poll()
GuardAllow(phone) == isWhitelisted(phone)

\* the rate-limit check of poll(): <<allowed, remaining, rateLimits'>>
GuardRate(S, phone) == checkRateLimit(S.rateLimits, phone, S.now)

\* the sanitize step of poll()
GuardSanitize(text) == sanitizeMessageContent(Trim(text))

\* a scan that logs no event: only sanitizeMessageContent logs for h
GuardAuditSanitizeOnly(h) ==
    IF SanitizeLogs(Trim(msgs[h].text)) THEN {Note(h, "audit:content_sanitized")} ELSE {}

\* the events sanitizeMessageContent and detectSuspiciousPatterns log for h
GuardAudit(h) ==
    (IF SanitizeLogs(Trim(msgs[h].text)) THEN {Note(h, "audit:content_sanitized")} ELSE {})
    \cup (IF detectSuspiciousPatterns(GuardSanitize(msgs[h].text)) # {}
          THEN {Note(h, "audit:suspicious_content_detected")} ELSE {})

\* the audit log is kept as a set: an event logged for h a second time is
\* noted apart
AuditAgain(S, h) == IF GuardAudit(h) \cap S.log # {} THEN {Note(h, "audit:again")} ELSE {}

\* checkRateLimit counts the message h, which it has counted before: the trail
\* of the guards h went through the last time holds the counted call
CountedAgain(S, h) ==
    IF Len(S.guardLog[h]) >= 2 /\ S.guardLog[h][2] = "rate"
    THEN {Note(h, "rate:again")} ELSE {}

\* cd <path>: the path is the last token; isCdCommand resolves it and lets it
\* pass when it starts with the home directory or with /tmp
\* the characters of a path, as far as a prefix test can tell paths apart
PathChars(path) ==
    CASE path = "/home/u" -> <<"/", "home", "/", "u">>
      [] path = "/home/u/proj" -> <<"/", "home", "/", "u", "/", "proj">>
      [] path = "/home/u/none" -> <<"/", "home", "/", "u", "/", "none">>
      [] path = "/home/u2" -> <<"/", "home", "/", "u", "2">>
      [] path = "/tmp" -> <<"/", "tmp">>
      [] path = "/tmp/x" -> <<"/", "tmp", "/", "x">>
      [] path = "/tmpx" -> <<"/", "tmp", "x">>
      [] path = "/etc" -> <<"/", "etc">>
      [] OTHER -> <<path>>

\* String.prototype.startsWith
StartsWith(s, prefix) == Len(prefix) <= Len(s) /\ SubSeq(s, 1, Len(prefix)) = prefix

\* path.resolve: the path is absolute already, but for its .. segments
Resolve(path) == IF path = "/home/u/../../etc" THEN "/etc" ELSE path

CdPath(content) == Resolve(Trim(content)[Len(Trim(content))])
CdAllowed(path) ==
    \/ StartsWith(PathChars(path), PathChars(HomeDir))
    \/ StartsWith(PathChars(path), PathChars("/tmp"))
CdExists(path) == path \in Dirs

\* processMessage(h, phone, content) called by poll(): the code up to the
\* await of the 'Starting' notice
StartDirect(S, h, content) ==
    Logged([S EXCEPT !.pm[h] = [pc |-> "starting", root |-> h, content |-> content]],
           {Note(h, "dispatched")} \cup Notice(S, h, "notice:starting"))

\* the command handlers of poll(), which all end awaiting one notice
RunCommand(S, h, cmd, content) ==
    LET T == Await(Logged(S, {Note(h, "command")} \cup Notice(S, h, "notice:command")),
                   "awaitNotice")
    IN  CASE cmd = "interrupt" ->
                IF T.agent.runningTask = 0 THEN T
                ELSE Logged([T EXCEPT !.agent = interruptCurrentTask(@)],
                            {Note(h, CASE interruptReturns(T.agent) = "null" -> "interrupt:null"
                                       [] interruptReturns(T.agent) = "" -> "interrupt:empty"
                                       [] OTHER -> "interrupt:text")}
                            \cup IF interruptReturns(T.agent) = "null" THEN {}
                                 ELSE {Note(T.agent.sessions[T.agent.currentSession].currentProcess,
                                            "interrupted")})
          [] cmd \in {"home", "reset"} ->
                [T EXCEPT !.db.current_project = HomeDir, !.agent = killCurrentSession(@)]
          [] cmd = "cd" /\ CdAllowed(CdPath(content)) /\ CdExists(CdPath(content)) ->
                [T EXCEPT !.db.current_project = CdPath(content),
                          !.agent = killCurrentSession(@)]
          [] cmd = "cd" /\ ~CdAllowed(CdPath(content)) -> Logged(T, {Note(h, "cd:denied")})
          [] OTHER -> T

\* a routing that looks at the busy flag first: while a turn is in flight
\* every message is enqueued, a command too
RouteBusyFirst(S0, h, content) ==
    LET S == markMessageProcessed(S0, h)
        cmd == CommandOf(content)
        from == msgs[h].from
    IN  IF S.isProcessingMessage \/ S.agent.runningTask # 0
        THEN Await(Logged([S EXCEPT !.db.queue = Append(@, QEntry(h, from, content))],
                          {Note(h, "queued")} \cup Notice(S, h, "notice:queued")), "awaitNotice")
        ELSE IF cmd # "" THEN RunCommand(S, h, cmd, content)
        ELSE IF from \in S.db.pendingApproval /\ isApprovalResponse(content)
        THEN Await(Logged([S EXCEPT !.db.pendingApproval = @ \ {from}],
                          {Note(h, "approval")} \cup Notice(S, h, "notice:command")), "awaitNotice")
        ELSE Continue(StartDirect(S, h, content))

\* a routing that takes a reply to an approval request as one whether or not
\* an approval is pending for the sender
RouteApprovalUnchecked(S0, h, content) ==
    LET S == markMessageProcessed(S0, h)
        cmd == CommandOf(content)
        from == msgs[h].from
    IN  IF cmd # "" THEN RunCommand(S, h, cmd, content)
        ELSE IF isApprovalResponse(content)
        THEN Await(Logged([S EXCEPT !.db.pendingApproval = @ \ {from}],
                          {Note(h, "approval")} \cup Notice(S, h, "notice:command")), "awaitNotice")
        ELSE IF S.isProcessingMessage \/ S.agent.runningTask # 0
        THEN Await(Logged([S EXCEPT !.db.queue = Append(@, QEntry(h, from, content))],
                          {Note(h, "queued")} \cup Notice(S, h, "notice:queued")), "awaitNotice")
        ELSE Continue(StartDirect(S, h, content))

\* poll() from markMessageProcessed on (the command handlers, the pending
\* approval, the queue, the dispatch) for the message h in hand
Route(S0, h, content) ==
    LET S == markMessageProcessed(S0, h)
        cmd == CommandOf(content)
        from == msgs[h].from
    IN  IF cmd # "" THEN RunCommand(S, h, cmd, content)
        ELSE IF from \in S.db.pendingApproval /\ isApprovalResponse(content)
        THEN Await(Logged([S EXCEPT !.db.pendingApproval = @ \ {from}],
                          {Note(h, "approval")} \cup Notice(S, h, "notice:command")), "awaitNotice")
        ELSE IF S.isProcessingMessage \/ S.agent.runningTask # 0
        THEN Await(Logged([S EXCEPT !.db.queue = Append(@, QEntry(h, from, content))],
                          {Note(h, "queued")} \cup Notice(S, h, "notice:queued")), "awaitNotice")
        ELSE Continue(StartDirect(S, h, content))

\* poll(): the message h in hand is from a sender not on the allow-list
DropNotAllowed(S, h) ==
    Continue(Logged(markMessageProcessed([S EXCEPT !.guardLog[h] = <<>>], h),
                    {Note(h, "notAllowed")}))

\* a RejectRateLimited that sends nothing
RejectRateLimitedSilently(S, h, limits) ==
    Continue(Logged(markMessageProcessed([S EXCEPT !.rateLimits = limits,
                                                   !.guardLog[h] = <<"allow">>], h),
                    {Note(h, "rateLimited"), Note(h, "audit:rate_limit_exceeded")}))

\* poll(): checkRateLimit does not allow the message h in hand; limits is the
\* rateLimits map it leaves
RejectRateLimited(S, h, limits) ==
    Await(Logged([S EXCEPT !.rateLimits = limits, !.guardLog[h] = <<"allow">>],
                 {Note(h, "rateLimited"), Note(h, "audit:rate_limit_exceeded"),
                  Note(h, "notice:rateLimited")}), "awaitRate")

\* checkRateLimit, sanitizeMessageContent or detectSuspiciousPatterns throws for
\* the message in hand
Throws(S, h, at) == S.fault = [h |-> h, at |-> at]

\* no try block encloses the three guard calls but the one around the whole
\* of poll(): the exception leaves the loop, the catch block logs it and the
\* finally block clears isPolling; the message is not marked processed
GuardThrows(S, h, trail) == PollReturns([S EXCEPT !.guardLog[h] = trail])

\* poll(): the loop body for the message in hand, up to its first await
Handle(S) ==
    LET h == Head(S.batch)
        m == msgs[h]
        rl == GuardRate(S, m.from)
        sanitizedContent == GuardSanitize(m.text)
        R == [S EXCEPT !.rateLimits = rl[3], !.log = @ \cup CountedAgain(S, h)]
        G == [R EXCEPT !.guardLog[h] = <<"allow", "rate", "sanitize">>,
                       !.log = @ \cup GuardAudit(h) \cup AuditAgain(S, h)]
    IN  IF h \in S.db.processed THEN Continue(S)
        ELSE IF ~GuardAllow(m.from)
        THEN DropNotAllowed(S, h)
        ELSE IF Throws(S, h, "rate")
        THEN GuardThrows(S, h, <<"allow", "rate:error">>)
        ELSE IF ~rl[1]
        THEN RejectRateLimited(S, h, rl[3])
        ELSE IF Throws(S, h, "sanitize")
        THEN GuardThrows(R, h, <<"allow", "rate", "sanitize:error">>)
        ELSE IF Throws(S, h, "scan")
        THEN GuardThrows(Logged(R, GuardAudit(h) \ {Note(h, "audit:suspicious_content_detected")}),
                         h, <<"allow", "rate", "sanitize", "scan:error">>)
        ELSE IF sanitizedContent = <<>> /\ m.media = NoUrl
        THEN Continue(Logged(markMessageProcessed(G, h), {Note(h, "empty")}))
        ELSE IF m.media # NoUrl /\ detectMediaType(m.media) = "audio"
        THEN Await(G, "transcribe")
        ELSE Route(G, h, BuildContent(sanitizedContent, m.media, <<>>))

\* processQueue() when it dequeues: the head is removed and the 'Now
\* processing' notice is awaited
Dequeue(S, root) ==
    LET e == Head(S.db.queue)
    IN  Logged([S EXCEPT !.db.queue = Tail(@),
                         !.pm[e.message_handle] =
                             [pc |-> "nowProcessing", root |-> root, content |-> e.content]],
               {Note(e.message_handle, "dequeued")}
                   \cup Notice(S, e.message_handle, "notice:nowProcessing"))

\* the end of poll(): the queue is drained when no message is being
\* processed, and poll() awaits that
PollEnd(S) ==
    IF ~S.isProcessingMessage /\ Len(S.db.queue) > 0
    THEN Await(Dequeue(S, 0), "drain")
    ELSE PollReturns(S)

RECURSIVE RunLoop(_)
\* the for loop of poll() and the end of poll(), up to the next await
RunLoop(S) ==
    IF S.pollPc # "loop" THEN S
    ELSE IF S.batch = <<>> THEN PollEnd(S)
    ELSE RunLoop(Handle(S))

\* a poll() that does not look at isPolling
PollUnguarded(i, k) ==
    Becomes(RunLoop([Cur EXCEPT !.isPolling = TRUE,
                                !.pollPc = "loop",
                                !.batch = [j \in 1..(k + 1 - i) |-> i + j - 1],
                                !.fetched = k]))

\* setInterval fires, no poll is in progress, and getInboundMessages returns
\* the handles i..k, of which i..fetched have been delivered before (the
\* transport delivers at least once)
Poll(i, k) ==
    /\ ~isPolling
    /\ Becomes(RunLoop([Cur EXCEPT !.isPolling = TRUE,
                                   !.pollPc = "loop",
                                   !.batch = [j \in 1..(k + 1 - i) |-> i + j - 1],
                                   !.fetched = k]))

\* the same, and the transport delivers every message of the batch twice in it
PollTwice(i, k) ==
    /\ ~isPolling
    /\ LET once == [j \in 1..(k + 1 - i) |-> i + j - 1]
       IN  Becomes(RunLoop([Cur EXCEPT !.isPolling = TRUE,
                                       !.pollPc = "loop",
                                       !.batch = once \o once,
                                       !.fetched = k]))

\* the same, and one guard call throws for the message h of the batch
PollFaulty(i, k, h, at) ==
    /\ ~isPolling
    /\ h \in i..k
    /\ Becomes(RunLoop([Cur EXCEPT !.isPolling = TRUE,
                                   !.pollPc = "loop",
                                   !.batch = [j \in 1..(k + 1 - i) |-> i + j - 1],
                                   !.fetched = k,
                                   !.fault = [h |-> h, at |-> at]]))

\* the call awaited by the loop returns: the rate-limit notice (the message
\* is marked processed), another notice, or transcribeAudio
PollResumes ==
    /\ pollPc \in {"awaitRate", "awaitNotice", "transcribe"}
    /\ LET h == Head(batch)
           m == msgs[h]
           S == [Cur EXCEPT !.pollPc = "loop"]
       IN  Becomes(RunLoop(
               CASE pollPc = "awaitRate" -> Continue(markMessageProcessed(S, h))
                 [] pollPc = "awaitNotice" -> Continue(S)
                 [] pollPc = "transcribe" ->
                       Route(S, h, BuildContent(GuardSanitize(m.text), m.media, m.transcription))))

\* a sendMessage awaited by the loop throws: poll() leaves through catch and finally
PollNoticeFails ==
    /\ pollPc \in {"awaitRate", "awaitNotice"}
    /\ Becomes(PollReturns(Cur))

(***************************************************************************)
(* index.ts: processMessage and processQueue.  The calls                   *)
(* processMessage -> processQueue -> processMessage -> ... form a chain    *)
(* whose root is a message poll() dispatched without awaiting it (root: its *)
(* handle) or the processQueue() poll() awaits at its end (root: 0).       *)
(***************************************************************************)
\* the last call of a chain returns: the poll() that awaits it returns too
ChainEnds(S, root) == IF root = 0 THEN PollReturns(S) ELSE S

\* an exception leaves the chain: poll()'s catch and finally when poll()
\* awaits it, else the catch handler of the dispatch
ChainThrows(S, root) == IF root = 0 THEN PollReturns(S) ELSE S

\* processQueue() called at the end of processMessage
processQueue(S, root) ==
    IF S.db.queue # <<>> /\ ~S.isProcessingMessage
    THEN Dequeue(S, root)
    ELSE ChainEnds(S, root)

\* processMessage from addConversationMessage to the await of askClaude:
\* getOrCreateSession and ClaudeSession.send
AskClaude(S, h) ==
    LET a == getOrCreateSession(S.agent, S.db.current_project)
    IN  [S EXCEPT !.isProcessingMessage = TRUE,
                  !.agent = send(a, a.currentSession, h),
                  !.pm[h].pc = "sending"]

\* the 'Starting' notice of a dispatched turn has been sent
PmStartingSent(h) ==
    /\ pm[h].pc = "starting"
    /\ Becomes(AskClaude(Cur, h))

\* the 'Starting' notice throws, before processMessage's try block
PmStartingFails(h) ==
    /\ pm[h].pc = "starting"
    /\ Becomes(ChainThrows([Cur EXCEPT !.pm[h].pc = "threw"], pm[h].root))

\* a processMessage that sends the 'Starting' notice for a drained turn too
PmNowProcessingThenStarting(h) ==
    /\ pm[h].pc = "nowProcessing"
    /\ Becomes(AskClaude(Logged(Cur, Notice(Cur, h, "notice:starting")), h))

\* the 'Now processing' notice has been sent: processMessage(.., true)
PmNowProcessingSent(h) ==
    /\ pm[h].pc = "nowProcessing"
    /\ Becomes(AskClaude(Cur, h))

\* the 'Now processing' notice throws: processQueue throws with the turn dequeued
PmNowProcessingFails(h) ==
    /\ pm[h].pc = "nowProcessing"
    /\ Becomes(ChainThrows([Cur EXCEPT !.pm[h].pc = "lost"], pm[h].root))

\* processMessage's catch block: the current session is killed and the error
\* notice awaited
Catch(S, h) == [S EXCEPT !.agent = killCurrentSession(@), !.pm[h].pc = "errNotice"]

\* a 'close' handler that looks at the exit code first
CloseOutcomeByCode(raw, code) ==
    IF code # 0 THEN "exitError"
    ELSE IF HasText(raw) THEN "text"
    ELSE "noResponse"

\* a timeout handler that resolves whatever the partial output holds
TimeoutAlwaysResolves(partial) == "partialTimedOut"

\* the 'close' handler of send(): what it calls resolve or reject with
CloseOutcome(raw, code) ==
    IF HasText(raw) THEN "text"
    ELSE IF code # 0 THEN "exitError"
    ELSE "noResponse"

\* the timeout handler of send(): partial text and the marker, or an error
TimeoutOutcome(partial) == IF HasText(partial) THEN "partialTimedOut" ELSE "timeoutError"

\* the outcomes resolve is called with; reject is called with the others
Resolves(outcome) == outcome \in {"text", "noResponse", "partialTimedOut"}

\* in the runs that observe send(), the call of resolve or reject made by
\* the step is recorded: the handler that made it, what it was called with,
\* whether the promise had not settled before, and what the handler left
Called(S, h, by, outcome, code) ==
    IF ret.op # "send" THEN ret
    ELSE [op |-> "send", h |-> h, by |-> by, outcome |-> outcome, code |-> code,
          first |-> ~agent.proc[h].settled,
          raw |-> agent.proc[h].rawOutput,
          partial |-> IF agent.proc[h].sid \in 1..Len(agent.sessions)
                      THEN agent.sessions[agent.proc[h].sid].partialOutput ELSE "",
          pc |-> pm[h].pc,
          st |-> S.agent.proc[h].st,
          task |-> S.agent.runningTask]

\* the promise of send() settles, if it has not, and processMessage goes on
\* to its next await: the final response is sent, or the catch block runs.
\* S is the state the event handler leaves.
Settle(S, h, outcome) ==
    IF S.agent.proc[h].settled THEN S
    ELSE IF Resolves(outcome)
    THEN [S EXCEPT !.agent.proc[h].settled = TRUE, !.pm[h].pc = "replying"]
    ELSE Catch([S EXCEPT !.agent.proc[h].settled = TRUE], h)

\* proc.stdout 'data' of the send of h: the first chunk with text of the response
AgentData(h) ==
    /\ Alive(agent, h)
    /\ agent.proc[h].rawOutput = ""
    /\ Becomes([Cur EXCEPT !.agent.proc[h].rawOutput = "t",
                           !.agent.sessions[agent.proc[h].sid].partialOutput = "t"])

\* proc 'close' of the send of h with exit code `code` (1: any code but 0,
\* or null for a signal)
AgentClose(h, code) ==
    /\ agent.proc[h].st \in {"running", "signalled", "errored"}
    /\ LET sid == agent.proc[h].sid
           a == cleanup([agent EXCEPT !.sessions[sid].currentProcess = 0,
                                      !.proc[h].st = "closed",
                                      !.proc[h].timer = FALSE], sid)
           outcome == CloseOutcome(agent.proc[h].rawOutput, code)
           S == [Cur EXCEPT !.agent = a]
       IN  /\ BecomesBut(Settle(S, h, outcome))
           /\ ret' = Called(S, h, "close", outcome, code)

\* proc 'error' of the send of h: the subprocess could not be spawned
AgentError(h) ==
    /\ agent.proc[h].st = "running"
    /\ agent.proc[h].rawOutput = ""
    /\ agent.proc[h].timer
    /\ ~agent.proc[h].settled
    /\ LET S == [Cur EXCEPT !.agent = cleanup([agent EXCEPT !.proc[h].st = "errored"],
                                              agent.proc[h].sid)]
       IN  /\ BecomesBut(Settle(S, h, "spawnError"))
           /\ ret' = Called(S, h, "error", "spawnError", 1)

\* the 10-minute timer of the send of h fires
AgentTimeout(h) ==
    /\ agent.proc[h].timer
    /\ LET sid == agent.proc[h].sid
           a == kill([agent EXCEPT !.proc[h].timer = FALSE], sid)
           outcome == TimeoutOutcome(a.sessions[sid].partialOutput)
           S == [Cur EXCEPT !.agent = a]
       IN  /\ BecomesBut(Settle(S, h, outcome))
           /\ ret' = Called(S, h, "timeout", outcome, 0)

\* the final response has been sent: the finally block, then processQueue
PmReplySent(h) ==
    /\ pm[h].pc = "replying"
    /\ Becomes(processQueue([Cur EXCEPT !.isProcessingMessage = FALSE, !.pm[h].pc = "done"],
                             pm[h].root))

\* the final response throws: the catch block.  In the runs that observe
\* send() the failed call of sendMessage is recorded, with the place
\* processMessage goes on from.
PmReplyFails(h) ==
    /\ pm[h].pc = "replying"
    /\ BecomesBut(Catch(Cur, h))
    /\ ret' = IF ret.op # "send" THEN ret
              ELSE [NoCall EXCEPT !.h = h, !.by = "finalSend", !.outcome = "threw",
                                  !.first = TRUE, !.pc = Catch(Cur, h).pm[h].pc]

\* the error notice has been sent: the finally block, then processQueue
PmErrNoticeSent(h) ==
    /\ pm[h].pc = "errNotice"
    /\ Becomes(processQueue([Cur EXCEPT !.isProcessingMessage = FALSE, !.pm[h].pc = "done"],
                             pm[h].root))

\* the error notice throws: the finally block, and processMessage throws
PmErrNoticeFails(h) ==
    /\ pm[h].pc = "errNotice"
    /\ Becomes(ChainThrows([Cur EXCEPT !.isProcessingMessage = FALSE, !.pm[h].pc = "threw"],
                            pm[h].root))

\* time passes.  Only checkRateLimit reads the clock, and the end of a window
\* changes whom it lets pass only for a sender at the limit.
Tick ==
    /\ \E p \in Phones : /\ rateLimits[p].count >= MaxPerHour
                         /\ now <= rateLimits[p].resetTime
    /\ Becomes([Cur EXCEPT !.now = @ + 1])

Next ==
    \/ \E k \in 0..MaxMsgs : \E i \in 1..(MaxMsgs + 1) :
          /\ fetched <= k
          /\ i <= fetched + 1
          /\ i <= k + 1
          /\ Poll(i, k)
    \/ PollResumes
    \/ PollNoticeFails
    \/ \E h \in Handles : PmStartingSent(h)
    \/ \E h \in Handles : PmStartingFails(h)
    \/ \E h \in Handles : PmNowProcessingSent(h)
    \/ \E h \in Handles : PmNowProcessingFails(h)
    \/ \E h \in Handles : AgentData(h)
    \/ \E h \in Handles : \E code \in {0, 1} : AgentClose(h, code)
    \/ \E h \in Handles : AgentError(h)
    \/ \E h \in Handles : AgentTimeout(h)
    \/ \E h \in Handles : PmReplySent(h)
    \/ \E h \in Handles : PmReplyFails(h)
    \/ \E h \in Handles : PmErrNoticeSent(h)
    \/ \E h \in Handles : PmErrNoticeFails(h)

\* every run of the daemon within one rate-limit window
Spec == Init /\ [][Next]_vars

\* the runs in which time passes, no notice of processMessage or processQueue
\* throws, and every subprocess closes before its timer fires
NextGuard ==
    \/ \E k \in 0..MaxMsgs : \E i \in 1..(MaxMsgs + 1) :
          /\ fetched <= k
          /\ i <= fetched + 1
          /\ i <= k + 1
          /\ Poll(i, k)
    \/ PollResumes
    \/ PollNoticeFails
    \/ \E h \in Handles : PmStartingSent(h)
    \/ \E h \in Handles : PmNowProcessingSent(h)
    \/ \E h \in Handles : AgentData(h)
    \/ \E h \in Handles : \E code \in {0, 1} : AgentClose(h, code)
    \/ \E h \in Handles : PmReplySent(h)
    \/ \E h \in Handles : PmErrNoticeSent(h)
    \/ Tick

SpecGuard == InitGuard /\ [][NextGuard]_vars

(***************************************************************************)
(* The properties.                                                         *)
(***************************************************************************)
\* the turn h is in the durable queue
InQueue(h) == \E j \in 1..Len(db.queue) : db.queue[j].message_handle = h

\* the turn h has been dequeued and processQueue awaits its 'Now processing' notice
Draining(h) == pm[h].pc = "nowProcessing"

\* the turn h has been handed to the agent (askClaude has been called) and
\* processMessage has not reached its finally block
InFlight(h) == pm[h].pc \in {"sending", "replying", "errNotice"}

\* the turn h has been handed to processMessage by poll() or by processQueue
Dispatched(h) == pm[h].pc \notin {"none", "nowProcessing", "lost"}

\* the subprocesses that have been spawned and have not closed
AliveProcs == {h \in Handles : Alive(agent, h)}

\* C1: at most one turn is in flight (handed to the agent and not yet
\* completed) at any time.
C1_SingleFlight == Cardinality({h \in Handles : InFlight(h)}) <= 1

\* two turns of one batch have both been handed to the agent
C1_TwoInFlight == \A h \in Handles : pm[h].pc = "sending" /\ pm[h].root = h

\* C2: at most one agent subprocess is alive (spawned, its close event not
\* yet handled) at any time.
C2_OneSubprocess == Cardinality(AliveProcs) <= 1

\* a subprocess that was sent SIGTERM has not closed while another one runs
C2_SignalledAndRunning ==
    \E g, h \in Handles : agent.proc[g].st = "signalled" /\ agent.proc[h].st = "running"

\* C3: the running-task record exists if and only if a subprocess spawned by
\* send() has not yet closed.
C3_RunningTaskIffAlive == (agent.runningTask # 0) <=> (AliveProcs # {})

\* no running task is recorded while a subprocess is alive
C3_AliveWithoutTask == agent.runningTask = 0 /\ AliveProcs # {}

\* C4: turns of one sender are dispatched in arrival order: no turn is
\* dispatched directly by poll() while an earlier turn of the same sender
\* waits in the queue or is being drained from it.
C4_ArrivalOrder ==
    \A g, h \in Handles :
        (g < h /\ msgs[g].from = msgs[h].from /\ (InQueue(g) \/ Draining(g)))
            => ~(pm[h].pc = "starting")

\* poll() has dispatched a turn directly and then taken an earlier one of the
\* same sender from the queue
C4_Overtaken ==
    \E g, h \in Handles : /\ g < h /\ msgs[g].from = msgs[h].from
                          /\ pm[h].pc = "starting" /\ pm[h].root = h
                          /\ Draining(g) /\ pm[g].root = 0

\* C5: queued turns are dequeued and dispatched one at a time, in the order
\* they were enqueued, each only after the turn in flight before it has
\* completed: while a dequeued turn is being dispatched no other turn is
\* being dispatched or in flight, and no turn enqueued before it is left in
\* the queue.
C5_OneAtATime ==
    \A h \in Handles :
        Draining(h) =>
            /\ \A g \in Handles \ {h} :
                  pm[g].pc \notin {"starting", "nowProcessing", "sending", "replying", "errNotice"}
            /\ \A g \in Handles : InQueue(g) => h < g

\* a turn has been dequeued while another one is with the agent
C5_DequeuedWhileBusy == \E g, h \in Handles : Draining(h) /\ pm[g].pc = "sending"

\* C6: no queued turn is lost: a turn that has been enqueued is in the queue,
\* or is being handed to dispatch, or has been dispatched.
C6_NoQueuedTurnLost ==
    \A h \in Handles :
        <<h, "queued">> \in log => (InQueue(h) \/ Draining(h) \/ Dispatched(h))

\* a turn has left the queue, its 'Now processing' notice threw, and
\* processMessage was never called for it
C6_Lost == \E h \in Handles : <<h, "queued">> \in log /\ pm[h].pc = "lost" /\ ~InQueue(h)

\* what the log holds about the turn h
Events(h) == {e[2] : e \in {x \in log : x[1] = h}}

\* the notices sent, or tried, for the turn h
Notices(h) == Events(h) \cap {"notice:starting", "notice:queued", "notice:nowProcessing",
                              "notice:rateLimited", "notice:command"}

\* the turn h has gone past the guards of poll(): it was sanitized, run as a
\* command, taken as an approval, enqueued or dispatched
PastGuards(h) ==
    \/ pm[h].pc # "none"
    \/ InQueue(h)
    \/ agent.proc[h].st # "none"
    \/ Events(h) \cap {"dispatched", "queued", "dequeued", "command", "approval", "empty",
                       "audit:content_sanitized", "audit:suspicious_content_detected"} # {}

\* C7: a turn of a sender that is not on the allow-list is never dispatched
\* to the agent, never enqueued and never run as a command; once poll() has
\* handled it, it is marked processed, and nothing else is done with it.
C7_NotAllowedDropped ==
    \A h \in Handles :
        ~isWhitelisted(msgs[h].from) =>
            /\ ~PastGuards(h)
            /\ Events(h) \subseteq {"notAllowed"}
            /\ "notAllowed" \in Events(h) => h \in db.processed
            /\ h \in db.processed => "notAllowed" \in Events(h)

\* poll() has handled a command sent from a number that is not on the allow-list
C7_StrangerHandled ==
    \E h \in Handles : /\ ~isWhitelisted(msgs[h].from)
                       /\ CommandOf(Trim(msgs[h].text)) # ""
                       /\ h \in db.processed
                       /\ "notAllowed" \in Events(h)

\* C8: every turn that is dispatched or enqueued has passed, in this order,
\* the allow-list check, the rate-limit check and the sanitize step; a turn
\* that was rate-limited goes no further: it is never sanitized, run as a
\* command, enqueued or dispatched.
C8_GuardsInOrder ==
    \A h \in Handles :
        /\ PastGuards(h) => guardLog[h] = <<"allow", "rate", "sanitize">>
        /\ "rateLimited" \in Events(h) => ~PastGuards(h)

\* a turn that was rate-limited has been dispatched
C8_RateLimitedDispatched ==
    \E h \in Handles : "rateLimited" \in Events(h) /\ "dispatched" \in Events(h)

\* the content handed on for the turn h, if any
Handed(h) ==
    (IF pm[h].pc # "none" THEN {pm[h].content} ELSE {})
    \cup {db.queue[j].content : j \in {i \in 1..Len(db.queue) : db.queue[i].message_handle = h}}

\* C9: the content handed to dispatch or to the queue, the text derived from
\* attachments included, holds no match of a dangerous pattern.
C9_ContentSanitized == \A h \in Handles : \A c \in Handed(h) : ~HasDangerous(c)

\* the transcription of a voice note has been handed on with a dangerous pattern in it
C9_UnsanitizedTranscription ==
    \E h \in Handles : /\ msgs[h].transcription # <<>>
                       /\ HasDangerous(msgs[h].transcription)
                       /\ \E c \in Handed(h) : HasDangerous(c)

Callers == {PA, PX}

InitRate ==
    /\ msgs = [h \in Handles |-> Plain]
    /\ rateLimits = NoRateLimits
    /\ Startup(0)
    /\ ret = [op |-> "rate",
              last |-> [phone |-> <<>>, at |-> 0, allowed |-> TRUE, remaining |-> 0,
                        logged |-> FALSE, before |-> [count |-> 0, resetTime |-> 0]],
              win |-> [p \in Callers |-> [open |-> FALSE, start |-> 0, calls |-> 0]]]

\* the observer's window of a sender after a call at time t
Counted(w, t) ==
    IF ~w.open \/ t > w.start + WindowLen
    THEN [open |-> TRUE, start |-> t, calls |-> 1]
    ELSE [w EXCEPT !.calls = IF @ > MaxPerHour THEN @ ELSE @ + 1]

\* checkRateLimit(p) is called
RateCall(p) ==
    /\ ret.op = "rate"
    /\ LET r == checkRateLimit(rateLimits, p, now)
       IN  /\ BecomesBut([Cur EXCEPT !.rateLimits = r[3]])
           /\ ret' = [ret EXCEPT !.last = [phone |-> p, at |-> now, allowed |-> r[1],
                                           remaining |-> r[2],
                                           logged |-> RateLimitLogs(rateLimits, p, now),
                                           before |-> rateLimits[p]],
                                 !.win[p] = Counted(@, now)]

\* time passes
RateTick ==
    /\ ret.op = "rate"
    /\ now < MaxTime
    /\ Becomes([Cur EXCEPT !.now = @ + 1])

NextRate ==
    \/ \E p \in Callers : RateCall(p)
    \/ RateTick

SpecRate == InitRate /\ [][NextRate]_vars

\* C11: within one window exactly the first N calls of a sender are allowed,
\* with remaining = N - (allowed calls so far); every further call of the
\* window is denied with remaining 0 and logs rate_limit_exceeded; the stored
\* count never exceeds N.
C11_FirstNAllowed ==
    /\ \A p \in Phones : rateLimits[p].count <= MaxPerHour
    /\ ret.last.phone # <<>> =>
          LET calls == ret.win[ret.last.phone].calls
          IN  /\ ret.last.allowed <=> calls <= MaxPerHour
              /\ ret.last.allowed => ret.last.remaining = MaxPerHour - calls
              /\ ~ret.last.allowed => ret.last.remaining = 0
              /\ ret.last.logged <=> ~ret.last.allowed
              /\ rateLimits[ret.last.phone].count =
                    (IF calls <= MaxPerHour THEN calls ELSE MaxPerHour)

\* the call after the Nth of a window has been denied
C11_Denied ==
    /\ ret.last.phone # <<>>
    /\ ~ret.last.allowed
    /\ ret.win[ret.last.phone].calls = MaxPerHour + 1
    /\ ret.last.before.count = MaxPerHour

\* C12: the window is fixed: its end is set by the first counted call of the
\* window, one window length after it, and no later call moves it; the first
\* call after the end is allowed, with count 1 and remaining N - 1, and sets
\* the end of a new window.
C12_FixedWindow ==
    [][\A p \in Callers :
          LET old == rateLimits[p]
              new == rateLimits'[p]
              fresh == old.count = 0 \/ now > old.resetTime
              called == ret'.last # ret.last /\ ret'.last.phone = p
          IN  /\ new.resetTime # old.resetTime => (called /\ fresh)
              /\ (called /\ fresh) =>
                    /\ new = [count |-> 1, resetTime |-> now + WindowLen]
                    /\ ret'.last.allowed
                    /\ ret'.last.remaining = MaxPerHour - 1
              /\ (called /\ ~fresh) => new.resetTime = old.resetTime
              /\ new.count > 0 =>
                    new.resetTime = ret'.win[p].start + WindowLen]_vars

\* a sender denied in one window has been allowed again after its end
C12_NewWindow ==
    /\ ret.last.phone # <<>>
    /\ ret.last.before.count = MaxPerHour
    /\ ret.last.at > ret.last.before.resetTime
    /\ ret.last.allowed
    /\ rateLimits[ret.last.phone] = [count |-> 1, resetTime |-> ret.last.at + WindowLen]

(***************************************************************************)
(* security.ts: sanitizeMessageContent on its own, called once with any    *)
(* text of up to MaxLen tokens.                                            *)
(***************************************************************************)
Tokens == {"is_from_me", ":", " ", "true", "sender", "+", "1", "message_handle",
           "abc", "[SYSTEM]", "[admin]", "[FILTERED]"}

RECURSIVE Texts(_)
\* the texts of up to n tokens
Texts(n) ==
    IF n = 0 THEN {<<>>}
    ELSE Texts(n - 1) \cup {Append(t, x) : t \in {u \in Texts(n - 1) : Len(u) = n - 1},
                                           x \in Tokens}

InitSanitize ==
    /\ msgs = [h \in Handles |-> Plain]
    /\ rateLimits = NoRateLimits
    /\ Startup(0)
    /\ \E input \in Texts(MaxLen) :
          ret = [op |-> "sanitize", called |-> FALSE, input |-> input,
                 output |-> <<>>, events |-> 0]

\* sanitizeMessageContent(input) is called
SanitizeCall ==
    /\ ret.op = "sanitize"
    /\ ~ret.called
    /\ ret' = [ret EXCEPT !.called = TRUE,
                          !.output = sanitizeMessageContent(ret.input),
                          !.events = IF SanitizeLogs(ret.input) THEN 1 ELSE 0]
    /\ BecomesBut(Cur)

NextSanitize == SanitizeCall

SpecSanitize == InitSanitize /\ [][NextSanitize]_vars

\* the tokens of a text
Range(t) == {t[i] : i \in 1..Len(t)}

\* C13: for a text with a match of a dangerous pattern, sanitize returns a
\* text that holds the marker [FILTERED] and no match of a dangerous pattern,
\* and logs one content_sanitized event; for a text without a match it
\* returns the text unchanged and logs nothing.
C13_SanitizeContract ==
    (ret.op = "sanitize" /\ ret.called) =>
        IF HasDangerous(ret.input)
        THEN /\ FILTERED \in Range(ret.output)
             /\ ~HasDangerous(ret.output)
             /\ ret.events = 1
        ELSE /\ ret.output = ret.input
             /\ ret.events = 0

\* a text with matches of two dangerous patterns has been sanitized
C13_TwoPatternsFiltered ==
    /\ ret.op = "sanitize"
    /\ ret.called
    /\ Test(dangerousPatterns[1], ret.input)
    /\ Test(dangerousPatterns[5], ret.input)
    /\ ret.output = <<FILTERED, FILTERED>>

(***************************************************************************)
(* The guard calls of poll() under internal errors: the runs of a daemon    *)
(* whose checkRateLimit, sanitizeMessageContent or detectSuspiciousPatterns *)
(* may throw for a message.                                                *)
(***************************************************************************)
GuardCalls == {"rate", "sanitize", "scan"}

InitFault ==
    /\ ret = NoRet
    /\ msgs = [h \in Handles |-> Plain]
    /\ rateLimits = NoRateLimits
    /\ Startup(0)

NextFault ==
    \/ \E k \in 0..MaxMsgs : \E i \in 1..(MaxMsgs + 1) :
          /\ fetched <= k
          /\ i <= fetched + 1
          /\ i <= k + 1
          /\ Poll(i, k)
    \/ \E k \in 1..MaxMsgs : \E i \in 1..MaxMsgs : \E h \in Handles : \E at \in GuardCalls :
          /\ fetched <= k
          /\ i <= fetched + 1
          /\ PollFaulty(i, k, h, at)
    \/ PollResumes
    \/ PollNoticeFails
    \/ \E h \in Handles : PmStartingSent(h)
    \/ \E h \in Handles : PmNowProcessingSent(h)
    \/ \E h \in Handles : AgentData(h)
    \/ \E h \in Handles : \E code \in {0, 1} : AgentClose(h, code)
    \/ \E h \in Handles : PmReplySent(h)
    \/ \E h \in Handles : PmErrNoticeSent(h)

SpecFault == InitFault /\ [][NextFault]_vars

\* the handling of the turn h by poll() dispatched it or enqueued it
Delivered(h) == Events(h) \cap {"dispatched", "queued"} # {}

\* C14: a turn whose rate-limit check raised an internal error is neither
\* dispatched nor enqueued, and a turn whose sanitize step or suspicious scan
\* raised an internal error is dispatched or enqueued all the same.
C14_GuardFailures ==
    \A h \in Handles :
        /\ guardLog[h] = <<"allow", "rate:error">> => ~Delivered(h)
        /\ guardLog[h] \in {<<"allow", "rate", "sanitize:error">>,
                            <<"allow", "rate", "sanitize", "scan:error">>} => Delivered(h)

\* the rate-limit check threw for a turn, and the turn went nowhere
C14_RateErrorDenies ==
    \E h \in Handles :
        /\ guardLog[h] = <<"allow", "rate:error">>
        /\ ~Delivered(h)
        /\ h \notin db.processed

\* the sanitize step threw for a turn: the turn was neither dispatched nor
\* enqueued, and poll() has returned
C14_SanitizeErrorBlocks ==
    \E h \in Handles :
        /\ guardLog[h] = <<"allow", "rate", "sanitize:error">>
        /\ ~Delivered(h)
        /\ h \notin db.processed
        /\ ~isPolling

(***************************************************************************)
(* The routing of poll(): the runs in which a message may be a control      *)
(* command, a reply to an approval request or a text that names a          *)
(* sensitive path, and in which approvals may be pending at startup.       *)
(***************************************************************************)
Said(text) == Msg(PA, text, NoUrl, <<>>)

RouteSpecials ==
    { Said(<<"help">>), Said(<<"Status", "?">>), Said(<<"q">>), Said(<<"h", " ", "2">>),
      Said(<<"interrupt">>), Said(<<"stop">>), Said(<<"Cancel">>),
      Said(<<"home">>), Said(<<"fresh">>), Said(<<"/dirs">>),
      Said(<<"cd", " ", "/tmp/x">>), Said(<<"CD", " ", "/etc">>),
      Said(<<"cd", " ", "/home/u2">>), Said(<<"cd", " ", "/tmpx">>),
      Said(<<"cd", " ", "/home/u/../../etc">>), Said(<<"cd", " ", "/home/u/none">>),
      Said(<<"yes">>), Said(<<" ", "No">>), Said(<<"run", " ", "it">>),
      Said(<<"cat", " ", "/etc/passwd">>),
      Msg(PA, <<".env">>, <<"cdn/voice", ".m4a">>, <<"hello">>),
      Msg(PA, <<"status">>, <<"cdn/pic", ".JPG">>, <<>>),
      Msg(PX, <<"yes">>, NoUrl, <<>>) }

RouteScenarios ==
    {f \in [Handles -> {Plain} \cup RouteSpecials] :
        Cardinality({h \in Handles : f[h] # Plain}) <= 1}

InitRoute ==
    /\ ret = NoRet
    /\ msgs \in RouteScenarios
    /\ rateLimits = NoRateLimits
    /\ \E pending \in {{}, {PA, PX}} : StartupWith(0, pending)

NextRoute ==
    \/ \E k \in 0..MaxMsgs : \E i \in 1..(MaxMsgs + 1) :
          /\ fetched <= k
          /\ i <= fetched + 1
          /\ i <= k + 1
          /\ Poll(i, k)
    \/ PollResumes
    \/ PollNoticeFails
    \/ \E h \in Handles : PmStartingSent(h)
    \/ \E h \in Handles : PmNowProcessingSent(h)
    \/ \E h \in Handles : AgentData(h)
    \/ \E h \in Handles : \E code \in {0, 1} : AgentClose(h, code)
    \/ \E h \in Handles : PmReplySent(h)
    \/ \E h \in Handles : PmErrNoticeSent(h)

SpecRoute == InitRoute /\ [][NextRoute]_vars

\* the content poll() builds for the turn h
Content(h) == ContentOf(h, msgs[h].transcription)

\* the turn h has gone through the three guard calls of poll()
Scanned(h) == guardLog[h] = <<"allow", "rate", "sanitize">>

\* poll() is awaiting the transcription of the voice note of the turn h
Transcribing(h) == pollPc = "transcribe" /\ batch # <<>> /\ Head(batch) = h

\* the scan finds a sensitive path in the sanitized text of the turn h
Suspicious(h) == detectSuspiciousPatterns(GuardSanitize(msgs[h].text)) # {}

\* the turn h has been routed as its content alone demands: run as a command,
\* taken as the reply to an approval request, or dispatched or enqueued with
\* its content
RoutedByContent(h) ==
    /\ Handed(h) \subseteq {Content(h)}
    /\ IF Content(h) = <<>> THEN "empty" \in Events(h) /\ ~Delivered(h)
       ELSE IF CommandOf(Content(h)) # "" THEN "command" \in Events(h) /\ ~Delivered(h)
       ELSE ("approval" \in Events(h)) # Delivered(h)

\* C15: a match of the suspicious-pattern scan never blocks a turn: it causes
\* one suspicious_content_detected event, and only a turn with a match causes
\* one; with or without a match the turn is handled as its content demands.
C15_SuspiciousNeverBlocks ==
    \A h \in Handles :
        Scanned(h) =>
            /\ ("audit:suspicious_content_detected" \in Events(h)) = Suspicious(h)
            /\ "audit:again" \notin Events(h)
            /\ Transcribing(h) \/ RoutedByContent(h)

\* a turn whose text names /etc/passwd has been dispatched to the agent with
\* the path in its content, and the event has been logged
C15_SuspiciousDispatched ==
    \E h \in Handles :
        /\ Suspicious(h)
        /\ "audit:suspicious_content_detected" \in Events(h)
        /\ "dispatched" \in Events(h)
        /\ pm[h].pc # "none"
        /\ pm[h].content = <<"cat", " ", "/etc/passwd">>

\* C16: a turn whose content is a control command (help, status, queue,
\* history, interrupt, home, reset, dirs, cd) is run as a command and is never
\* dispatched to the agent nor enqueued, whether the agent is idle or busy;
\* the content of every turn on the agent path is no command.
C16_CommandsBypassAgent ==
    \A h \in Handles :
        /\ CommandOf(Content(h)) # "" =>
              /\ ~Delivered(h)
              /\ pm[h].pc = "none"
              /\ agent.proc[h].st = "none"
              /\ Handed(h) = {}
              /\ Scanned(h) => "command" \in Events(h)
        /\ \A c \in Handed(h) : CommandOf(c) = ""

\* a status command is being answered while the turn of an earlier message
\* is in flight
C16_CommandWhileBusy ==
    \E h \in Handles :
        /\ CommandOf(Content(h)) = "status"
        /\ "command" \in Events(h)
        /\ pollPc = "awaitNotice"
        /\ Head(batch) = h
        /\ agent.runningTask \notin {0, h}
        /\ isProcessingMessage

\* the turn h is marked processed by the step: poll() routes it
Routes(h) == h \notin db.processed /\ h \in db.processed'

\* C18: a reply to an approval request is consumed as one only if an approval
\* is pending for its sender: then that approval, and no other, is removed
\* and the turn does not reach the agent; with none pending the same text is
\* an ordinary turn, which is dispatched or enqueued; a reply that is also an
\* interrupt keyword (stop, cancel) is run as the interrupt command in both
\* cases, and removes no approval.
C18_ApprovalReply ==
    [][\A h \in Handles :
          (Routes(h) /\ Scanned(h)' /\ isApprovalResponse(Content(h))) =>
              IF isInterruptCommand(Content(h))
              THEN /\ "command" \in Events(h)'
                   /\ "approval" \notin Events(h)'
                   /\ ~Delivered(h)'
                   /\ db.pendingApproval' = db.pendingApproval
              ELSE IF msgs[h].from \in db.pendingApproval
              THEN /\ "approval" \in Events(h)'
                   /\ ~Delivered(h)'
                   /\ pm'[h].pc = "none"
                   /\ db.pendingApproval' = db.pendingApproval \ {msgs[h].from}
              ELSE /\ "approval" \notin Events(h)'
                   /\ Delivered(h)'
                   /\ db.pendingApproval' = db.pendingApproval]_vars

\* the reply 'yes' of the allowed sender has been consumed: the approval of
\* the other sender is still pending, and the turn is nowhere on the agent path
C18_ApprovalConsumed ==
    \E h \in Handles :
        /\ Content(h) = <<"yes">>
        /\ "approval" \in Events(h)
        /\ db.pendingApproval = {PX}
        /\ ~Delivered(h)
        /\ pm[h].pc = "none"

\* C17: no poll cycle stays blocked for the duration of an agent turn, so
\* that a control command arriving meanwhile is handled without waiting for
\* the turn: while a turn is with the agent, be it dispatched by poll() or
\* drained from the queue, no poll() is waiting for it.
C17_PollNotBlockedByTurn ==
    \A h \in Handles : pm[h].pc = "sending" => ~(isPolling /\ pollPc = "drain")

\* a turn dispatched by poll() is with the agent, and poll() has returned
C17_DirectTurnNotAwaited ==
    \E h \in Handles :
        /\ pm[h].pc = "sending"
        /\ pm[h].root = h
        /\ Alive(agent, h)
        /\ ~isPolling

\* a turn drained from the queue is with the agent and its subprocess runs;
\* the poll() that drained it is still waiting, so no other poll() starts,
\* and a message has yet to be fetched
C17_PollAwaitsDrainedTurn ==
    \E h \in Handles :
        /\ pm[h].pc = "sending"
        /\ pm[h].root = 0
        /\ agent.proc[h].st = "running"
        /\ isPolling
        /\ pollPc = "drain"
        /\ fetched < MaxMsgs

(***************************************************************************)
(* ClaudeSession.send observed: the runs in which the calls of resolve and  *)
(* reject are recorded for each send, and a subprocess may fail to spawn or *)
(* outlive its 10-minute timer.                                            *)
(***************************************************************************)
InitSend ==
    /\ ret = NoCall
    /\ msgs = [h \in Handles |-> Plain]
    /\ rateLimits = NoRateLimits
    /\ Startup(0)

NextSend ==
    \/ \E k \in 0..MaxMsgs : \E i \in 1..(MaxMsgs + 1) :
          /\ fetched <= k
          /\ i <= fetched + 1
          /\ i <= k + 1
          /\ Poll(i, k)
    \/ PollResumes
    \/ \E h \in Handles : PmStartingSent(h)
    \/ \E h \in Handles : PmNowProcessingSent(h)
    \/ \E h \in Handles : AgentData(h)
    \/ \E h \in Handles : \E code \in {0, 1} : AgentClose(h, code)
    \/ \E h \in Handles : AgentError(h)
    \/ \E h \in Handles : AgentTimeout(h)
    \/ \E h \in Handles : PmReplySent(h)
    \/ \E h \in Handles : PmErrNoticeSent(h)

SpecSend == InitSend /\ [][NextSend]_vars

\* C19: when the subprocess of a send closes, the close handler calls
\* resolve with the cleaned text if that is not empty, whatever the exit
\* code; else reject with the exit code if that is not 0; else resolve with
\* 'No response from Claude.'.  When the promise had not settled before,
\* processMessage goes on with that outcome.
C19_CloseSettles ==
    ret.by = "close" =>
        /\ ret.st = "closed"
        /\ IF HasText(ret.raw) THEN ret.outcome = "text"
           ELSE IF ret.code # 0 THEN ret.outcome = "exitError"
           ELSE ret.outcome = "noResponse"
        /\ ret.first => pm[ret.h].pc = (IF Resolves(ret.outcome) THEN "replying" ELSE "errNotice")

\* a subprocess has closed with a non-zero exit code after it wrote text:
\* send() resolved with the text and the reply is being sent
C19_TextDespiteExitCode ==
    /\ ret.by = "close"
    /\ ret.first
    /\ ret.outcome = "text"
    /\ ret.code = 1
    /\ pm[ret.h].pc = "replying"

\* C20: when the timer of a send fires and the send has partial output with
\* text, the subprocess of the send is signalled, send() resolves with the
\* partial text and the marker '[Response timed out]', no task is recorded
\* as running, and processMessage goes on to send the reply; the close event
\* that follows leaves processMessage where it is.
C20_TimeoutWithPartial ==
    /\ (ret.by = "timeout" /\ HasText(ret.raw)) =>
          /\ ret.outcome = "partialTimedOut"
          /\ ret.st = "signalled"
          /\ ret.task = 0
          /\ pm[ret.h].pc = "replying"
    /\ (ret.by = "close" /\ ~ret.first) => pm[ret.h].pc = ret.pc

\* the only send in flight has timed out with partial text: its subprocess
\* is signalled and the reply is being sent
C20_TimedOutAlone ==
    /\ ret.by = "timeout"
    /\ HasText(ret.raw)
    /\ ret.outcome = "partialTimedOut"
    /\ ret.st = "signalled"
    /\ ret.task = 0
    /\ pm[ret.h].pc = "replying"
    /\ \A g \in Handles \ {ret.h} : pm[g].pc \in {"none", "done"}

\* two sends overlap on one session: the timer of the first fires after it
\* wrote text, and the handler signals the subprocess of the second and reads
\* the partial output of the session, which the second send has emptied; the
\* first send is rejected and its subprocess runs on
C20_TimeoutHitsOtherSend ==
    /\ ret.by = "timeout"
    /\ HasText(ret.raw)
    /\ ret.outcome = "timeoutError"
    /\ ret.st = "running"
    /\ pm[ret.h].pc = "errNotice"
    /\ \E g \in Handles \ {ret.h} : agent.proc[g].st = "signalled"

KillContract(sid) ==
    LET k == kill(agent, sid)
    IN  /\ k.sessions[sid].currentProcess = 0
        /\ k.sessions[sid].currentTaskId = 0
        /\ agent.sessions[sid].currentTaskId # 0 => k.runningTask = 0
        /\ \A h \in Handles : k.proc[h].settled = agent.proc[h].settled
        /\ kill(k, sid) = k

C23_InterruptNeverEmptyString ==
    \A h \in Handles : "interrupt:empty" \notin Events(h)

\* a turn was interrupted after its subprocess wrote text: the text was
\* returned and the subprocess is signalled
C23_InterruptReturnsText ==
    \E h, g \in Handles :
        /\ "interrupt:text" \in Events(h)
        /\ pollPc = "awaitNotice"
        /\ Head(batch) = h
        /\ agent.proc[g].st = "signalled"
        /\ agent.proc[g].rawOutput = "t"

\* a turn was interrupted before its subprocess wrote anything: the empty
\* string was returned, and the subprocess is signalled
C23_InterruptReturnsEmpty ==
    \E h, g \in Handles :
        /\ "interrupt:empty" \in Events(h)
        /\ pollPc = "awaitNotice"
        /\ Head(batch) = h
        /\ agent.proc[g].st = "signalled"
        /\ agent.proc[g].rawOutput = ""

(***************************************************************************)
(* getOrCreateSession step by step: the runs of two callers whose calls     *)
(* interleave at the two awaits of the function (of exit() and of start()). *)
(* No subprocess runs; killCurrentSession may be called between two calls.  *)
(***************************************************************************)
RegistryCallers == {1, 2}

\* the session a caller is handed: null, or its directory and whether it is active
SessionView(a) ==
    IF a.currentSession = 0 THEN [dir |-> "null", isActive |-> FALSE]
    ELSE [dir |-> a.sessions[a.currentSession].workingDirectory,
          isActive |-> a.sessions[a.currentSession].isActive]

\* getOrCreateSession from 'currentDir = workingDir' to the await of start()
CreateSession(a, workingDir) ==
    [a EXCEPT !.currentDir = workingDir,
              !.sessions = Append(a.sessions, NewSession(workingDir)),
              !.currentSession = Len(a.sessions) + 1]

InitRegistry ==
    /\ ret = [op |-> "registry",
              call |-> [c \in RegistryCallers |->
                           [pc |-> "idle", dir |-> "", got |-> SessionView([currentSession |-> 0])]]]
    /\ msgs = [h \in Handles |-> Plain]
    /\ rateLimits = NoRateLimits
    /\ Startup(0)

\* the caller c calls getOrCreateSession(d): the code up to its first await,
\* or to its return when the current session is active and bound to d
GocCall(c, d) ==
    /\ ret.op = "registry"
    /\ ret.call[c].pc \in {"idle", "done"}
    /\ IF /\ agent.currentSession # 0
          /\ agent.sessions[agent.currentSession].isActive
          /\ agent.currentDir = d
       THEN /\ BecomesBut(Cur)
            /\ ret' = [ret EXCEPT !.call[c] = [pc |-> "done", dir |-> d, got |-> SessionView(agent)]]
       ELSE IF agent.currentSession # 0
       THEN /\ BecomesBut([Cur EXCEPT !.agent = exit(agent, agent.currentSession)])
            /\ ret' = [ret EXCEPT !.call[c] = [@ EXCEPT !.pc = "exit", !.dir = d]]
       ELSE /\ BecomesBut([Cur EXCEPT !.agent = CreateSession(agent, d)])
            /\ ret' = [ret EXCEPT !.call[c] = [@ EXCEPT !.pc = "start", !.dir = d]]

\* the await of exit() or of start() of the caller c returns: the session is
\* created, or 'return currentSession' runs
GocResume(c) ==
    /\ ret.op = "registry"
    /\ ret.call[c].pc \in {"exit", "start"}
    /\ IF ret.call[c].pc = "exit"
       THEN /\ BecomesBut([Cur EXCEPT !.agent = CreateSession(agent, ret.call[c].dir)])
            /\ ret' = [ret EXCEPT !.call[c].pc = "start"]
       ELSE /\ BecomesBut(Cur)
            /\ ret' = [ret EXCEPT !.call[c].pc = "done", !.call[c].got = SessionView(agent)]

\* a command handler calls killCurrentSession while no call is suspended
GocKill ==
    /\ ret.op = "registry"
    /\ \A c \in RegistryCallers : ret.call[c].pc \in {"idle", "done"}
    /\ agent.currentSession # 0
    /\ BecomesBut([Cur EXCEPT !.agent = killCurrentSession(agent)])
    /\ ret' = [ret EXCEPT !.call = [c \in RegistryCallers |-> [@[c] EXCEPT !.pc = "idle"]]]

NextRegistry ==
    \/ \E c \in RegistryCallers : \E d \in {HomeDir, "/home/u/proj", "/tmp/x"} : GocCall(c, d)
    \/ \E c \in RegistryCallers : GocResume(c)
    \/ GocKill

SpecRegistry == InitRegistry /\ [][NextRegistry]_vars

\* C24: a call getOrCreateSession(d) that has returned was handed an active
\* session bound to d, also when the calls of two callers interleave at
\* their awaits; the registry holds at most one session.
C24_ActiveSessionForDir ==
    /\ \A c \in RegistryCallers :
          ret.call[c].pc = "done" =>
              /\ ret.call[c].got.isActive
              /\ ret.call[c].got.dir = ret.call[c].dir
    /\ Len(agent.sessions) <= 1

\* a call for another directory than that of the current session has
\* returned a fresh session bound to it, and the other caller is not in a call
C24_FreshSession ==
    \E c \in RegistryCallers :
        /\ ret.call[c].pc = "done"
        /\ ret.call[c].dir = "/tmp/x"
        /\ ret.call[c].got = [dir |-> "/tmp/x", isActive |-> TRUE]
        /\ agent.currentDir = "/tmp/x"
        /\ \A b \in RegistryCallers \ {c} : ret.call[b].pc = "idle"

\* two calls for different directories have interleaved: both have returned,
\* and both were handed the session bound to the directory of the later one
C24_SessionOfOtherCaller ==
    \E c, b \in RegistryCallers :
        /\ ret.call[c].pc = "done"
        /\ ret.call[b].pc = "done"
        /\ ret.call[c].dir # ret.call[b].dir
        /\ ret.call[c].got = ret.call[b].got
        /\ ret.call[c].got.isActive
        /\ ret.call[c].got.dir = ret.call[b].dir

\* the content is a navigation command that poll() carries out: home, reset,
\* or cd to an allowed directory that exists
Navigates(content) ==
    \/ CommandOf(content) \in {"home", "reset"}
    \/ CommandOf(content) = "cd" /\ CdAllowed(CdPath(content)) /\ CdExists(CdPath(content))

\* the directory it leads to
Target(content) == IF CommandOf(content) = "cd" THEN CdPath(content) ELSE HomeDir

Progress(h) == Events(h) \cap {"notice:starting", "notice:queued", "notice:nowProcessing"}

\* C26: a turn that is enqueued is sent the 'Queued' notice in the step that
\* enqueues it and the 'Now processing' notice in the step that dequeues it,
\* each once, and never the 'Starting' notice; a turn that poll() dispatches
\* is sent the 'Starting' notice once and neither of the other two; no notice
\* of one kind is sent twice about one turn.
C26_NoticesPerTurn ==
    /\ [](\A h \in Handles :
            /\ "notice:again" \notin Events(h)
            /\ InQueue(h) => Progress(h) \subseteq {"notice:queued"}
            /\ (pm[h].pc # "none" /\ pm[h].root # h) =>
                  Progress(h) \ {"notice:queued"} = {"notice:nowProcessing"}
            /\ (pm[h].pc # "none" /\ pm[h].root = h) => Progress(h) = {"notice:starting"}
            /\ (pm[h].pc = "none" /\ ~InQueue(h)) => Progress(h) = {})
    /\ [][\A h \in Handles :
            /\ (~InQueue(h) /\ InQueue(h)') =>
                  /\ "notice:queued" \notin Events(h)
                  /\ Progress(h)' = {"notice:queued"}
            /\ (InQueue(h) /\ ~InQueue(h)') =>
                  /\ "notice:nowProcessing" \notin Events(h)
                  /\ "notice:nowProcessing" \in Events(h)'
                  /\ pm'[h].pc = "nowProcessing"]_vars

\* a turn that was enqueued while another was in flight has been drained and
\* handed to the agent, and the other was dispatched by poll()
C26_QueuedThenDrained ==
    \E h, g \in Handles :
        /\ Progress(h) = {"notice:queued", "notice:nowProcessing"}
        /\ pm[h].pc = "sending"
        /\ pm[h].root = g
        /\ Progress(g) = {"notice:starting"}
        /\ pm[g].pc = "done"

(***************************************************************************)
(* The failure of a dispatch (processMessage: catch, finally and the       *)
(* processQueue call after them).                                          *)
(***************************************************************************)
\* processMessage is running for the turn h: a notice, the agent or the
\* final response is awaited
Running(h) == pm[h].pc \in {"starting", "sending", "replying"}

\* what holds of every failed dispatch whatever raised the error: the turn
\* never comes back by itself
NeverAgain(h) ==
    /\ ~InQueue(h)'
    /\ pm'[h].pc \in {"errNotice", "threw", "done"}

\* C27: in the step in which processMessage fails for a turn (the send of
\* the agent is rejected, or a sendMessage of processMessage throws) the
\* error notice is sent, the registry holds no session and no RunningTask is
\* left; when the error notice has been sent the busy flag is clear and the
\* head of the queue, if any, is dequeued; the failed turn is never enqueued
\* or dispatched again.
C27_DispatchFailure ==
    /\ [][\A h \in Handles :
            (Running(h) /\ ~Running(h)' /\ pm'[h].pc # "done") =>
                /\ pm'[h].pc = "errNotice"
                /\ agent'.currentSession = 0
                /\ agent'.runningTask = 0
                /\ NeverAgain(h)]_vars
    /\ [][\A h \in Handles :
            (pm[h].pc = "errNotice" /\ pm'[h].pc = "done") =>
                /\ ~isProcessingMessage'
                /\ db.queue # <<>> =>
                      /\ db'.queue = Tail(db.queue)
                      /\ pm'[Head(db.queue).message_handle].pc = "nowProcessing"
                /\ NeverAgain(h)]_vars
    /\ [][\A h \in Handles : pm[h].pc \in {"errNotice", "threw", "done"} => NeverAgain(h)]_vars

\* the catch block has run for a turn handed to the agent while another turn
\* is queued: the error notice is awaited, no session and no RunningTask is left
C27_CaughtWhileQueued ==
    \E h, g \in Handles :
        /\ pm[h].pc = "errNotice"
        /\ agent.proc[h].settled
        /\ InQueue(g)
        /\ agent.currentSession = 0
        /\ agent.runningTask = 0

\* the 'Starting' notice of a turn threw: processMessage has failed, and the
\* session is still in the registry
C27_StartingFailedSessionKept ==
    \E h \in Handles :
        /\ pm[h].pc = "threw"
        /\ pm[h].root = h
        /\ agent.proc[h].st = "none"
        /\ agent.currentSession # 0

(***************************************************************************)
(* poll(): the isPolling flag.                                             *)
(***************************************************************************)
\* C28: while a poll cycle is running (the flag is set exactly while code of
\* poll() is pending at an await) no step fetches messages or takes up a
\* batch: the batch in hand only shrinks, so a trigger in between does
\* nothing; when the cycle has ended, by return or by exception, the flag is
\* clear and nothing of the cycle is left, so the next trigger runs.
C28_PollsNeverOverlap ==
    /\ [](/\ isPolling <=> pollPc # "idle"
          /\ pollPc \in {"idle", "awaitRate", "awaitNotice", "transcribe", "drain"}
          /\ ~isPolling => batch = <<>>)
    /\ [][isPolling =>
            /\ fetched' = fetched
            /\ \E j \in 0..Len(batch) : batch' = SubSeq(batch, j + 1, Len(batch))]_vars

\* a cycle is still running, awaiting the turn it drained from the queue,
\* while the transport holds a message that has not been fetched
C28_CycleAwaitsWhileMessageWaits ==
    \E h \in Handles :
        /\ isPolling
        /\ pollPc = "drain"
        /\ pm[h].pc = "sending"
        /\ pm[h].root = 0
        /\ fetched < MaxMsgs

(***************************************************************************)
(* Redelivery: the transport delivers at least once, within a batch and    *)
(* across polls; poll() skips the handles the database holds as processed. *)
(***************************************************************************)
\* the runs of SpecGuard, and batches that hold every message twice
NextRedeliver ==
    \/ NextGuard
    \/ \E k \in 1..MaxMsgs : \E i \in 1..MaxMsgs :
          /\ fetched <= k
          /\ i <= fetched + 1
          /\ i <= k
          /\ PollTwice(i, k)

SpecRedeliver == InitGuard /\ [][NextRedeliver]_vars

\* the ways poll() takes a message up
Taken(h) == Events(h) \cap {"dispatched", "queued", "command", "approval", "empty"}

Direct(h) == pm[h].pc # "none" /\ pm[h].root = h

\* C30: a turn that arrives while the agent is idle (the busy flag clear and
\* no RunningTask) is not enqueued but dispatched in that step; while the
\* agent works on it a RunningTask is set; when its send resolves the
\* RunningTask is cleared and the one text with the reply is sent: the turn
\* comes to its reply once, from the send, and goes on to its end from there.
C30_IdleTurnServed ==
    /\ [](\A h \in Handles :
            (Direct(h) /\ pm[h].pc = "sending") => agent.runningTask # 0)
    /\ [][\A h \in Handles :
            /\ (~InQueue(h) /\ InQueue(h)') => (isProcessingMessage \/ agent.runningTask # 0)
            /\ (Direct(h) /\ pm[h].pc # "replying" /\ pm'[h].pc = "replying") =>
                  /\ pm[h].pc = "sending"
                  /\ agent'.proc[h].settled
                  /\ agent'.runningTask = 0
            /\ (Direct(h) /\ pm[h].pc = "replying") =>
                  pm'[h].pc \in {"replying", "done", "errNotice"}
            /\ (Direct(h) /\ pm[h].pc \in {"done", "errNotice", "threw"}) =>
                  pm'[h].pc # "replying"]_vars

\* the first turn the daemon received was dispatched at once; its
\* subprocess has closed with text, no RunningTask is left and the reply is
\* being sent
C30_ReplyBeingSent ==
    /\ Direct(1)
    /\ pm[1].pc = "replying"
    /\ agent.proc[1].settled
    /\ agent.runningTask = 0
    /\ \A g \in Handles \ {1} : pm[g].pc = "none"

\* the first turn the daemon received was dispatched at once and the agent
\* still works on it, but no RunningTask is set: the turn dispatched after it
\* has ended and cleared it
C30_WorkingWithoutTask ==
    /\ Direct(1)
    /\ pm[1].pc = "sending"
    /\ agent.proc[1].st = "running"
    /\ agent.runningTask = 0
    /\ Direct(2)
    /\ pm[2].pc \in {"replying", "done"}

(***************************************************************************)
(* claude-session.ts: stripAnsi and extractFinalResponse.  Here a text is  *)
(* a sequence of characters: ESC, the bracket that opens a control         *)
(* sequence, a parameter byte, two final bytes (of which M also ends a     *)
(* two-character sequence), the newline, the blank and the box-drawing     *)
(* dash of the lines extractFinalResponse removes.                         *)
(***************************************************************************)
Chars == {"ESC", "[", "0", "m", "M", "\n", " ", "-"}

RECURSIVE Strings(_)
\* the texts of up to n characters
Strings(n) ==
    IF n = 0 THEN {<<>>}
    ELSE Strings(n - 1) \cup {Append(t, x) : t \in {u \in Strings(n - 1) : Len(u) = n - 1},
                                             x \in Chars}

RECURSIVE RunOf(_, _, _)
\* the end of the longest run of characters of cls in s from i on
RunOf(cls, s, i) == IF i <= Len(s) /\ s[i] \in cls THEN RunOf(cls, s, i + 1) ELSE i

\* the length of the match of /\x1B(?:[@-Z\\-_]|\[[0-?]*[ -/]*[@-~])/ at i, or 0
AnsiLen(s, i) ==
    IF s[i] # "ESC" \/ i = Len(s) THEN 0
    ELSE IF s[i + 1] = "M" THEN 2
    ELSE IF s[i + 1] # "[" THEN 0
    ELSE LET f == RunOf({" "}, s, RunOf({"0"}, s, i + 2))
         IN  IF f <= Len(s) /\ s[f] \in {"[", "m", "M"} THEN f + 1 - i ELSE 0

RECURSIVE StripFrom(_, _)
\* replace(/.../g, ''): the matches are found left to right in one pass
StripFrom(s, i) ==
    IF i > Len(s) THEN <<>>
    ELSE IF AnsiLen(s, i) > 0 THEN StripFrom(s, i + AnsiLen(s, i))
    ELSE <<s[i]>> \o StripFrom(s, i + 1)

stripAnsi(text) == StripFrom(text, 1)

RECURSIVE Split(_)
\* String.prototype.split('\n')
Split(s) ==
    LET k == RunOf(Chars \ {"\n"}, s, 1)
    IN  IF k > Len(s) THEN <<s>>
        ELSE <<SubSeq(s, 1, k - 1)>> \o Split(SubSeq(s, k + 1, Len(s)))

RECURSIVE Join(_)
\* Array.prototype.join('\n')
Join(lines) ==
    IF Len(lines) = 0 THEN <<>>
    ELSE IF Len(lines) = 1 THEN lines[1]
    ELSE lines[1] \o <<"\n">> \o Join(Tail(lines))

\* linesToRemove, tested on the trimmed line: of the patterns the rule of
\* box-drawing dashes /^─+$/ can match a line over Chars
ShouldRemove(line) ==
    LET t == Trim(line) IN t # <<>> /\ \A i \in 1..Len(t) : t[i] = "-"

RECURSIVE Keep(_)
\* the loop that fills filteredLines
Keep(lines) ==
    IF lines = <<>> THEN <<>>
    ELSE IF ShouldRemove(Head(lines)) THEN Keep(Tail(lines))
    ELSE <<Head(lines)>> \o Keep(Tail(lines))

RECURSIVE Collapse(_, _)
\* replace(/\n{3,}/g, '\n\n')
Collapse(s, i) ==
    IF i > Len(s) THEN <<>>
    ELSE LET e == RunOf({"\n"}, s, i)
         IN  IF e - i >= 3 THEN <<"\n", "\n">> \o Collapse(s, e)
             ELSE IF e > i THEN SubSeq(s, i, e - 1) \o Collapse(s, e)
             ELSE <<s[i]>> \o Collapse(s, i + 1)

extractFinalResponse(rawOutput) ==
    Trim(Collapse(Join(Keep(Split(stripAnsi(rawOutput)))), 1))

InitExtract ==
    /\ msgs = [h \in Handles |-> Plain]
    /\ rateLimits = NoRateLimits
    /\ Startup(0)
    /\ \E input \in Strings(MaxLen) :
          ret = [op |-> "extract", called |-> FALSE, input |-> input,
                 once |-> <<>>, twice |-> <<>>]

\* extractFinalResponse(input) is called, and called again on what it returned
ExtractCall ==
    /\ ret.op = "extract"
    /\ ~ret.called
    /\ ret' = [ret EXCEPT !.called = TRUE,
                          !.once = extractFinalResponse(ret.input),
                          !.twice = extractFinalResponse(extractFinalResponse(ret.input))]
    /\ BecomesBut(Cur)

NextExtract == ExtractCall

SpecExtract == InitExtract /\ [][NextExtract]_vars

\* C31: extractFinalResponse applied to what it returned returns the same text
C31_ExtractIdempotent ==
    (ret.op = "extract" /\ ret.called) => ret.twice = ret.once

\* a text with a control sequence, a dash line and blank lines has been
\* cleaned, and cleaning the result again changes nothing
C31_CleanedStaysClean ==
    /\ ret.op = "extract"
    /\ ret.called
    /\ \E i \in 1..Len(ret.input) : AnsiLen(ret.input, i) > 0
    /\ ret.once # ret.input
    /\ ret.once # <<>>
    /\ ret.twice = ret.once

\* an escape sequence inside another: the pass that strips the inner one
\* leaves the outer one behind, and the second call strips that
C31_NestedEscapeLeftBehind ==
    /\ ret.op = "extract"
    /\ ret.called
    /\ ret.input = <<"ESC", "ESC", "M", "M">>
    /\ ret.once = <<"ESC", "M">>
    /\ ret.twice = <<>>

(***************************************************************************)
(* index.ts: deduplicateResponse.  A text is a sequence of characters; the *)
(* texts tried are X, a separator of blanks, and X again, where X is a     *)
(* body with blanks before and after it.                                   *)
(***************************************************************************)
\* the longest run of blanks tried before, after and between the copies
MaxPad == 10

\* response.length < 100 returns the response as it is
MinResponse == 100
\* the split points tried lie within 50 characters of the middle
SplitWindow == 50
\* the halves must be longer than 50 characters
MinHalf == 50
\* minDupLength: the shortest repeated ending looked for
MinDupLength == 100

\* n blanks
Blanks(n) == [i \in 1..n |-> " "]

\* a body of n characters that does not repeat itself: "ab...b", or "a b...b"
\* with a blank inside
Body(n, spaced) ==
    [i \in 1..n |-> IF i = 1 THEN "a" ELSE IF spaced /\ i = 2 THEN " " ELSE "b"]

\* String.prototype.substring(from, to), with positions counted from 0
Substring(s, from, to) == SubSeq(s, from + 1, to)

\* a deduplicateResponse that compares the two halves as they are
deduplicateExactHalves(response) ==
    IF Len(response) < MinResponse THEN response
    ELSE LET trimmed == Trim(response)
             halfLength == Len(trimmed) \div 2
             hits == {sp \in (halfLength - SplitWindow)..(halfLength + SplitWindow) :
                         /\ sp > 0
                         /\ sp < Len(trimmed)
                         /\ Substring(trimmed, 0, sp) = Substring(trimmed, sp, Len(trimmed))
                         /\ sp > MinHalf}
         IN  IF hits # {}
             THEN Substring(trimmed, 0, CHOOSE sp \in hits : \A o \in hits : sp <= o)
             ELSE response

\* deduplicateResponse(response)
deduplicateResponse(response) ==
    IF Len(response) < MinResponse THEN response
    ELSE LET trimmed == Trim(response)
             halfLength == Len(trimmed) \div 2
             firstHalf(sp) == Trim(Substring(trimmed, 0, sp))
             secondHalf(sp) == Trim(Substring(trimmed, sp, Len(trimmed)))
             hits == {sp \in (halfLength - SplitWindow)..(halfLength + SplitWindow) :
                         /\ sp > 0
                         /\ sp < Len(trimmed)
                         /\ firstHalf(sp) = secondHalf(sp)
                         /\ Len(firstHalf(sp)) > MinHalf}
             start(len) == Trim(Substring(trimmed, 0, len))
             endsWith(len) ==
                 /\ Len(start(len)) <= Len(trimmed)
                 /\ Substring(trimmed, Len(trimmed) - Len(start(len)), Len(trimmed)) = start(len)
             tails == {len \in MinDupLength..halfLength :
                          (halfLength - len) % 10 = 0 /\ endsWith(len)}
         IN  IF hits # {}
             THEN firstHalf(CHOOSE sp \in hits : \A o \in hits : sp <= o)
             ELSE IF tails # {}
             THEN Trim(Substring(trimmed, 0,
                                 Len(trimmed) - (CHOOSE len \in tails : \A o \in tails : len >= o)))
             ELSE response

InitDedup ==
    /\ msgs = [h \in Handles |-> Plain]
    /\ rateLimits = NoRateLimits
    /\ Startup(0)
    /\ \E lead \in {0, 1, MaxPad} : \E trail \in {0, 1, MaxPad} : \E sep \in {0, 1, MaxPad} :
       \E n \in {MinHalf, MinHalf + 1, 60, 61} : \E spaced \in BOOLEAN :
          LET x == Blanks(lead) \o Body(n, spaced) \o Blanks(trail)
          IN  /\ Len(x) >= 60
              /\ ret = [op |-> "dedup", called |-> FALSE, x |-> x, sep |-> sep, output |-> <<>>]

\* deduplicateResponse is called with x, sep blanks, and x again
DedupCall ==
    /\ ret.op = "dedup"
    /\ ~ret.called
    /\ ret' = [ret EXCEPT !.called = TRUE,
                          !.output = deduplicateResponse(ret.x \o Blanks(ret.sep) \o ret.x)]
    /\ BecomesBut(Cur)

NextDedup == DedupCall

SpecDedup == InitDedup /\ [][NextDedup]_vars

ActivityIntervalMs == 1000

\* a gate that lets every activity pass
GateAlwaysOpen(clock, lastActivityTime) == TRUE

\* processLine: now - lastActivityTime >= activityIntervalMs
GateOpen(clock, lastActivityTime) == clock - lastActivityTime >= ActivityIntervalMs

\* send() has been called with an onToolActivity callback: lastActivityTime
\* is 0 and the clock is far from 0
InitActivity ==
    /\ msgs = [h \in Handles |-> Plain]
    /\ rateLimits = NoRateLimits
    /\ Startup(0)
    /\ \E start \in {ActivityIntervalMs, 2 * ActivityIntervalMs + 1} :
          ret = [op |-> "gate", now |-> start, lastActivityTime |-> 0,
                 seen |-> <<>>, calls |-> <<>>, ticks |-> 0]

\* a line of stdout or stderr in which parseToolActivity finds an activity
ActivityLine ==
    /\ ret.op = "gate"
    /\ Len(ret.seen) < MaxLen
    /\ ret' = IF GateOpen(ret.now, ret.lastActivityTime)
              THEN [ret EXCEPT !.seen = Append(@, ret.now),
                               !.calls = Append(@, ret.now),
                               !.lastActivityTime = ret.now]
              ELSE [ret EXCEPT !.seen = Append(@, ret.now)]
    /\ BecomesBut(Cur)

\* the clock goes on by d milliseconds
ActivityTick(d) ==
    /\ ret.op = "gate"
    /\ ret.ticks < MaxTime
    /\ ret' = [ret EXCEPT !.now = @ + d, !.ticks = @ + 1]
    /\ BecomesBut(Cur)

NextActivity ==
    \/ ActivityLine
    \/ \E d \in {1, ActivityIntervalMs - 1, ActivityIntervalMs} : ActivityTick(d)

SpecActivity == InitActivity /\ [][NextActivity]_vars

\* C33: the first activity detected is passed to the callback at once; two
\* calls of the callback that follow each other are at least
\* activityIntervalMs apart; an activity detected when the last call is that
\* long ago, or longer, is passed on at once; every call is made in the step
\* that detects the activity, so an activity that was not passed on is never
\* passed on later.
C33_ActivityGate ==
    /\ [](ret.op = "gate" =>
            /\ ret.seen # <<>> => (ret.calls # <<>> /\ ret.calls[1] = ret.seen[1])
            /\ \A i \in 1..(Len(ret.calls) - 1) :
                  ret.calls[i + 1] - ret.calls[i] >= ActivityIntervalMs
            /\ Len(ret.calls) <= Len(ret.seen))
    /\ [][ret.op = "gate" =>
            /\ ret'.calls # ret.calls =>
                  /\ ret'.calls = Append(ret.calls, ret.now)
                  /\ ret'.seen = Append(ret.seen, ret.now)
                  /\ ret'.now = ret.now
            /\ (/\ ret'.seen # ret.seen
                /\ ret.calls # <<>>
                /\ ret.now - ret.calls[Len(ret.calls)] >= ActivityIntervalMs) =>
                  ret'.calls = Append(ret.calls, ret.now)]_vars

\* of three activities the second, detected 999 ms after the first, was not
\* passed on, and the third, detected 1 ms later, was
C33_BurstCollapsed ==
    /\ ret.op = "gate"
    /\ Len(ret.seen) = 3
    /\ ret.seen[2] = ret.seen[1] + ActivityIntervalMs - 1
    /\ ret.seen[3] = ret.seen[1] + ActivityIntervalMs
    /\ ret.calls = <<ret.seen[1], ret.seen[3]>>

(***************************************************************************)
(* The cd command: isCdCommand and the cd handler of poll().               *)
(***************************************************************************)
\* the path is the directory root or lies in its tree
InTree(path, root) ==
    \/ PathChars(path) = PathChars(root)
    \/ StartsWith(PathChars(path), PathChars(root) \o <<"/">>)

\* C34: in the step that handles a cd command, either the resolved path lies
\* in the tree of the home directory or of /tmp, or the access-denied notice
\* is sent and the working directory and the sessions stay as they are; the
\* working directory is always in one of the two trees.
C34_CdRestricted ==
    /\ [](InTree(db.current_project, HomeDir) \/ InTree(db.current_project, "/tmp"))
    /\ [][\A h \in Handles :
            (/\ "command" \notin Events(h)
             /\ "command" \in Events(h)'
             /\ CommandOf(Content(h)) = "cd"
             /\ ~InTree(CdPath(Content(h)), HomeDir)
             /\ ~InTree(CdPath(Content(h)), "/tmp")) =>
                /\ "cd:denied" \in Events(h)'
                /\ db'.current_project = db.current_project
                /\ agent'.currentSession = agent.currentSession
                /\ agent'.sessions = agent.sessions
                /\ agent'.proc = agent.proc]_vars

\* a cd to a path that resolves to /etc has been refused: the working
\* directory is the home directory and its session is in the registry
C34_TraversalDenied ==
    \E h \in Handles :
        /\ Content(h) = <<"cd", " ", "/home/u/../../etc">>
        /\ "cd:denied" \in Events(h)
        /\ db.current_project = HomeDir
        /\ agent.currentSession # 0

\* a cd to /home/u2, next to the home directory /home/u, has been carried
\* out: the working directory is outside both trees and the session is gone
C34_SiblingOfHomeEntered ==
    \E h \in Handles :
        /\ Content(h) = <<"cd", " ", "/home/u2">>
        /\ "command" \in Events(h)
        /\ "cd:denied" \notin Events(h)
        /\ db.current_project = "/home/u2"
        /\ agent.currentSession = 0

(***************************************************************************)
(* processMessage: the sendMessage call that sends the final response.     *)
(***************************************************************************)
\* the runs of SpecSend, and those in which the final response fails to send
NextReply ==
    \/ NextSend
    \/ \E h \in Handles : PmReplyFails(h)

SpecReply == InitSend /\ [][NextReply]_vars

\* C35: when the sendMessage call with the final response of a turn throws
\* for the first time, processMessage sends the response again
C35_FinalSendRetried ==
    (ret.op = "send" /\ ret.by = "finalSend" /\ ret.outcome = "threw" /\ ret.first) =>
        ret.pc = "replying"

\* the send of a turn has resolved with the text of the agent and the final
\* response is being sent
C35_FinalSendUnderWay ==
    /\ ret.op = "send"
    /\ ret.by = "close"
    /\ ret.outcome = "text"
    /\ ret.first
    /\ pm[ret.h].pc = "replying"

\* the first sendMessage call with the final response threw: the response
\* is not sent again, the session has been killed and the error notice is
\* being sent instead
C35_FinalSendGivenUp ==
    /\ ret.op = "send"
    /\ ret.by = "finalSend"
    /\ ret.outcome = "threw"
    /\ ret.first
    /\ pm[ret.h].pc = "errNotice"
    /\ agent.currentSession = 0

(***************************************************************************)
(* Termination of send(): the runs in which every poll fetches one new      *)
(* message and the event loop does not stop while a callback is due: a    *)
(* timer that is armed fires in the end, and a sendMessage processMessage   *)
(* awaits returns or throws in the end.  Nothing makes a subprocess close:  *)
(* one that ignores SIGTERM stays signalled for ever.                       *)
(***************************************************************************)
\* a callback of the event loop that is due: a timer that fires, or the
\* continuation of a processMessage whose sendMessage has returned or thrown
Due ==
    \E h \in Handles :
        \/ AgentTimeout(h)
        \/ PmReplySent(h)
        \/ PmReplyFails(h)
        \/ PmErrNoticeSent(h)

NextSettle ==
    \/ fetched < MaxMsgs /\ Poll(fetched + 1, fetched + 1)
    \/ PollResumes
    \/ \E h \in Handles : PmStartingSent(h)
    \/ \E h \in Handles : PmNowProcessingSent(h)
    \/ \E h \in Handles : AgentData(h)
    \/ \E h \in Handles : \E code \in {0, 1} : AgentClose(h, code)
    \/ \E h \in Handles : AgentError(h)
    \/ \E h \in Handles : AgentTimeout(h)
    \/ \E h \in Handles : PmReplySent(h)
    \/ \E h \in Handles : PmReplyFails(h)
    \/ \E h \in Handles : PmErrNoticeSent(h)

InitSettle ==
    /\ ret = NoRet
    /\ msgs = [h \in Handles |-> Plain]
    /\ rateLimits = NoRateLimits
    /\ Startup(0)

SpecSettle ==
    /\ InitSettle
    /\ [][NextSettle]_vars
    /\ WF_vars(Due)

\* the send() of turn h has been called and its promise has not settled
Pending(h) == agent.proc[h].st # "none" /\ ~agent.proc[h].settled

\* processMessage has left its finally block for turn h
Finished(h) == pm[h].pc \in {"done", "threw"}

\* processMessage is between the call of send() for turn h and its finally block
Busy(h) == pm[h].pc \in {"sending", "replying", "errNotice"}

\* C36: every send() settles in the end, by its close event, its spawn-error
\* event or its 10-minute timer, whatever the subprocess does after a
\* termination signal, and it settles once: a send is not pending for ever,
\* processMessage awaits it exactly while it is pending, a settled promise
\* stays settled and processMessage never comes back to that await.
\* processMessage then does not stay before its finally block for ever, and
\* the step that takes it through the finally block clears the busy flag.
C36_SendSettlesOnce ==
    /\ []<>(\A h \in Handles : ~Pending(h) /\ ~Busy(h))
    /\ [](\A h \in Handles : (pm[h].pc = "sending") <=> Pending(h))
    /\ [][\A h \in Handles :
            /\ agent.proc[h].settled => agent'.proc[h].settled
            /\ (pm[h].pc # "sending" /\ pm[h].pc # "nowProcessing" /\ pm[h].pc # "starting")
                  => pm'[h].pc # "sending"
            /\ Finished(h) => Finished(h)'
            /\ (Busy(h) /\ Finished(h)') => ~isProcessingMessage']_vars

\* the subprocess of a turn was signalled and has not closed; the promise of
\* its send settled when the timer fired, and processMessage has finished
\* the turn and cleared the busy flag
C36_SettledThoughNeverClosed ==
    \E h \in Handles :
        /\ agent.proc[h].st = "signalled"
        /\ agent.proc[h].settled
        /\ ~agent.proc[h].timer
        /\ Finished(h)
        /\ ~isProcessingMessage

(***************************************************************************)
(* The handlers of one send() and the sends that follow it on the session.  *)
(***************************************************************************)
\* the send of turn g is the latest of its session and its subprocess runs,
\* while the send of turn h was made on the same session before it
LaterSend(h, g) ==
    /\ g # h
    /\ agent.proc[h].st # "none"
    /\ agent.proc[g].st = "running"
    /\ agent.proc[g].sid = agent.proc[h].sid
    /\ agent.sessions[agent.proc[g].sid].currentProcess = g

\* the step runs the close handler, the error handler or the timer of the
\* send of turn h
HandlerOf(h) ==
    /\ ret' # ret
    /\ ret'.h = h
    /\ ret'.by \in {"close", "error", "timeout"}

\* C37: the close handler, the error handler and the timer of a send leave
\* a later send of the same session alone: its subprocess is not signalled,
\* the session still holds its process handle, and the RunningTask it
\* recorded is still recorded.
C37_HandlersKeepToTheirSend ==
    [][\A h, g \in Handles :
          (HandlerOf(h) /\ LaterSend(h, g)) =>
              /\ agent'.proc[g].st = "running"
              /\ agent'.sessions[agent'.proc[g].sid].currentProcess = g
              /\ agent.runningTask = g => agent'.runningTask = g]_vars

\* the subprocess of a turn that the catch block killed has closed, on a
\* session the registry has dropped; the send of the next turn, on a new
\* session, runs with its process handle and its RunningTask in place
C37_CloseOnDroppedSession ==
    \E g \in Handles :
        /\ ret.by = "close"
        /\ ret.h # g
        /\ ~ret.first
        /\ agent.proc[g].st = "running"
        /\ agent.currentSession = agent.proc[g].sid
        /\ agent.sessions[agent.proc[g].sid].currentProcess = g
        /\ agent.runningTask = g

\* a turn timed out with partial text and was answered; its subprocess
\* closes while the send of the next turn runs on the same session: the
\* close handler has cleared the process handle and the RunningTask of
\* that later send
C37_CloseClearsLaterSend ==
    \E g \in Handles :
        /\ ret.by = "close"
        /\ ret.h < g
        /\ ~ret.first
        /\ pm[ret.h].pc = "done"
        /\ pm[g].pc = "sending"
        /\ agent.proc[g].st = "running"
        /\ agent.currentSession = agent.proc[g].sid
        /\ agent.sessions[agent.proc[g].sid].currentProcess = 0
        /\ agent.runningTask = 0

(***************************************************************************)
(* The turn an interrupt command stops.                                    *)
(***************************************************************************)
\* C38: an interrupted turn is abandoned: once the interrupt command has
\* signalled the subprocess of a turn and sends its '[Interrupted]' notice,
\* processMessage sends neither a final response nor an error notice for
\* that turn, whenever its send() settles.
C38_InterruptedTurnAbandoned ==
    \A g \in Handles :
        "interrupted" \in Events(g) => pm[g].pc \notin {"replying", "errNotice"}

\* the interrupt command has signalled the subprocess of a turn that had
\* written text and awaits its '[Interrupted]' notice; the send() of the
\* turn has not settled
C38_InterruptNoticeOnly ==
    \E h, g \in Handles :
        /\ "interrupt:text" \in Events(h)
        /\ "notice:command" \in Events(h)
        /\ "interrupted" \in Events(g)
        /\ agent.proc[g].st = "signalled"
        /\ ~agent.proc[g].settled
        /\ pm[g].pc = "sending"

\* the subprocess of the interrupted turn has closed: its send() resolved
\* with the text written before the interrupt, and processMessage sends
\* that text as the final response after the '[Interrupted]' notice
C38_RepliedAfterInterrupt ==
    \E h, g \in Handles :
        /\ "interrupt:text" \in Events(h)
        /\ "notice:command" \in Events(h)
        /\ "interrupted" \in Events(g)
        /\ agent.proc[g].st = "closed"
        /\ pm[g].pc = "replying"

(***************************************************************************)
(* A batch whose handling throws.  The runs of SpecRoute without voice      *)
(* notes, in which poll() does not wait for ever for a sendMessage call of  *)
(* its loop: the call returns or throws in the end.  The two steps are      *)
(* enabled together and each ends the wait, so the condition is stated on   *)
(* the step that throws; it holds of a run in which every call returns.     *)
(* Nothing makes the transport deliver again a message it has returned:    *)
(* getInboundMessages(lastPollTime) asks for the messages since the last    *)
(* poll.                                                                    *)
(***************************************************************************)
InitBatch ==
    /\ InitRoute
    /\ \A h \in Handles : msgs[h].media = NoUrl \/ detectMediaType(msgs[h].media) # "audio"

SpecBatch ==
    /\ InitBatch
    /\ [][NextRoute]_vars
    /\ WF_vars(PollNoticeFails)

\* C39: every message of an allowed sender that a poll has fetched is in
\* the end dispatched, enqueued, handled as a command or an approval reply,
\* dropped as empty, or rejected by the rate limit, also when the handling
\* of an earlier message of its batch throws.
C39_BatchSurvivesFailure ==
    \A h \in Handles :
        (h <= fetched /\ isWhitelisted(msgs[h].from))
            ~> (Taken(h) # {} \/ "rateLimited" \in Events(h))

\* poll() awaits the notice of a command, and a message of the allowed
\* sender waits behind it in the batch
C39_TurnWaitsBehindNotice ==
    /\ pollPc = "awaitNotice"
    /\ Len(batch) >= 2
    /\ "command" \in Events(batch[1])
    /\ isWhitelisted(msgs[batch[2]].from)
    /\ Taken(batch[2]) = {}

\* the notice of a command threw and poll() has returned: the message that
\* was behind it in the batch has been fetched and is neither taken up nor
\* marked processed, and every message has been fetched
C39_RestOfBatchDropped ==
    \E g, h \in Handles :
        /\ g < h
        /\ h <= fetched
        /\ fetched = MaxMsgs
        /\ ~isPolling
        /\ "command" \in Events(g)
        /\ isWhitelisted(msgs[h].from)
        /\ Taken(h) = {}
        /\ h \notin db.processed
        /\ \A k \in Handles : ~Busy(k) /\ pm[k].pc \notin {"starting", "nowProcessing"}

(***************************************************************************)
(* index.ts: acquireLock and releaseLock, run by two daemon processes that  *)
(* start at any time.  A step is one call on the file system or on the      *)
(* process table.  The state is the record ret:                             *)
(*   file      the PID written in the PID file ("": there is no file)       *)
(*   pc        the place of each daemon process                            *)
(*   attempt   acquireLock's loop counter of each process                   *)
(*   existing  the PID each process has read from the file                  *)
(* "d0" is the PID of a daemon that was killed and left its PID file.       *)
(***************************************************************************)
Daemons == {"d1", "d2"}

\* acquireLock's maxRetries
MaxRetries == 3

\* the process p has been started and has not exited
Up(L, p) == p \in Daemons /\ L.pc[p] \notin {"off", "refused", "exited"}

\* isOurDaemon(pid): the process exists and is a daemon of this program
isOurDaemon(L, pid) == Up(L, pid)

\* the process p has returned from acquireLock with true and runs as the daemon
Holds(L, p) == L.pc[p] \in {"held", "rExists", "rRead", "rUnlink"}

InitLock ==
    /\ msgs = [h \in Handles |-> Plain]
    /\ rateLimits = NoRateLimits
    /\ Startup(0)
    /\ \E f \in {"", "d0"} :
          ret = [op |-> "lock", file |-> f,
                 pc |-> [p \in Daemons |-> "off"],
                 attempt |-> [p \in Daemons |-> 0],
                 existing |-> [p \in Daemons |-> ""]]

\* the lock functions change the PID file only
LockStep(L) == ret' = L /\ BecomesBut(Cur)

\* main() calls acquireLock
LockStart(p) ==
    /\ ret.pc[p] = "off"
    /\ LockStep([ret EXCEPT !.pc[p] = "exists"])

\* acquireLock's catch block: the next attempt, or false after the last
LockCaught(L, p) ==
    IF L.attempt[p] = MaxRetries - 1
    THEN [L EXCEPT !.pc[p] = "refused"]
    ELSE [L EXCEPT !.attempt[p] = @ + 1, !.pc[p] = "exists"]

\* fs.existsSync(PID_FILE)
LockExists(p) ==
    /\ ret.pc[p] = "exists"
    /\ LockStep([ret EXCEPT !.pc[p] = IF ret.file # "" THEN "read" ELSE "write"])

\* fs.readFileSync(PID_FILE), which throws when the file has been removed
LockRead(p) ==
    /\ ret.pc[p] = "read"
    /\ LockStep(IF ret.file = "" THEN LockCaught(ret, p)
                ELSE [ret EXCEPT !.existing[p] = ret.file, !.pc[p] = "check"])

\* isOurDaemon(existingPid) && existingPid !== process.pid: wait and try
\* again, give up at the last attempt, or take the file for stale
LockCheck(p) ==
    /\ ret.pc[p] = "check"
    /\ LockStep(IF isOurDaemon(ret, ret.existing[p]) /\ ret.existing[p] # p
                THEN IF ret.attempt[p] < MaxRetries - 1
                     THEN [ret EXCEPT !.pc[p] = "wait"]
                     ELSE [ret EXCEPT !.pc[p] = "refused"]
                ELSE [ret EXCEPT !.pc[p] = "write"])

\* the busy wait of retryDelayMs is over: continue
LockWaited(p) ==
    /\ ret.pc[p] = "wait"
    /\ LockStep([ret EXCEPT !.attempt[p] = @ + 1, !.pc[p] = "exists"])

\* fs.writeFileSync(PID_FILE, process.pid): acquireLock returns true
LockWrite(p) ==
    /\ ret.pc[p] = "write"
    /\ LockStep([ret EXCEPT !.file = p, !.pc[p] = "held"])

\* shutdown, or a crash handler, calls releaseLock
LockShutdown(p) ==
    /\ ret.pc[p] = "held"
    /\ LockStep([ret EXCEPT !.pc[p] = "rExists"])

\* releaseLock: fs.existsSync(PID_FILE)
ReleaseExists(p) ==
    /\ ret.pc[p] = "rExists"
    /\ LockStep([ret EXCEPT !.pc[p] = IF ret.file # "" THEN "rRead" ELSE "exited"])

\* releaseLock: fs.readFileSync(PID_FILE) and pid === process.pid
ReleaseRead(p) ==
    /\ ret.pc[p] = "rRead"
    /\ LockStep([ret EXCEPT !.pc[p] = IF ret.file = p THEN "rUnlink" ELSE "exited"])

\* releaseLock: fs.unlinkSync(PID_FILE), and the process exits
ReleaseUnlink(p) ==
    /\ ret.pc[p] = "rUnlink"
    /\ LockStep([ret EXCEPT !.file = "", !.pc[p] = "exited"])

NextLock ==
    \E p \in Daemons :
        \/ LockStart(p)
        \/ LockExists(p)
        \/ LockRead(p)
        \/ LockCheck(p)
        \/ LockWaited(p)
        \/ LockWrite(p)
        \/ LockShutdown(p)
        \/ ReleaseExists(p)
        \/ ReleaseRead(p)
        \/ ReleaseUnlink(p)

SpecLock == InitLock /\ [][NextLock]_vars

\* C40: acquireLock lets one daemon run at a time: two daemon processes
\* never both hold the lock (have returned from acquireLock with true and
\* not exited); and releaseLock removes the PID file only while the file
\* holds the PID of the process that releases.
C40_OneDaemonAtATime ==
    /\ [](\A p, q \in Daemons : (Holds(ret, p) /\ Holds(ret, q)) => p = q)
    /\ [][\A p \in Daemons :
            (ret.pc[p] = "rUnlink" /\ ret'.pc[p] = "exited") => ret.file = p]_vars

\* two daemons were started together with no PID file: each found no file
\* and wrote its PID, and both run
C40_BothAcquired ==
    /\ \A p \in Daemons : ret.pc[p] = "held" /\ ret.attempt[p] = 0 /\ ret.existing[p] = ""
    /\ ret.file \in Daemons

\* a daemon was refused at its last attempt: the PID file held the PID of
\* the daemon that runs
C40_SecondDaemonRefused ==
    \E p, q \in Daemons :
        /\ ret.pc[p] = "held"
        /\ ret.file = p
        /\ ret.pc[q] = "refused"
        /\ ret.attempt[q] = MaxRetries - 1
        /\ ret.existing[q] = p

====
